---- MODULE Spec2Model ----
(***************************************************************************)
(* Deal-processing orchestration of the BFMR auto-buyer:                   *)
(*   BfmrWeb.reserveIncrementally      (src/unnamed/part_000, 948-1033)     *)
(*   Monitor.checkDeals / processDeal  (src/unnamed/part_000, 1335-1643)    *)
(*   DealManager.fetchAndFilterDeals   (src/unnamed/part_008, 67-263)       *)
(*   legacy Monitor.processAmazonDeal  (src/unnamed/part_004, 195-347)      *)
(*                                                                         *)
(* Node runs one callback at a time: the code between two awaits that wait *)
(* on I/O is one atomic action.  Every browser / network call is an input  *)
(* of the environment: it returns one of the results its code can return,  *)
(* or throws where its code lets an exception escape.  The logger and the  *)
(* history file are taken to be reliable sinks.                            *)
(***************************************************************************)
EXTENDS Integers, Sequences, FiniteSets, TLC

VARIABLES
    isRunning,        \* Monitor.isRunning
    isChecking,       \* Monitor.isChecking
    intervalId,       \* Monitor.intervalId # null
    runResults,       \* Monitor.runResults.length > 0
    processingDeals,  \* DealManager.processingDeals
    config,           \* contents of config.json
    credentials,      \* BFMR_EMAIL and BFMR_PASSWORD are set
    proc,             \* locals of the running checkDeals / retryDeal invocations
    amazonBuyer,      \* AmazonBuyer.config, read once by its constructor
    tracker,          \* the board's tracker and the BfmrWeb calls made against it
    fn,               \* one evaluation of DealManager.isDealActionable on its own
    ri,               \* one reserveIncrementally call on its own
    lg,               \* the legacy (Amazon-only) Monitor
    sync,             \* Monitor.syncOrders, its flag and its timers
    dm                \* one DealManager.fetchAndFilterDeals call on its own

vars == <<isRunning, isChecking, intervalId, runResults, processingDeals,
          config, credentials, amazonBuyer, tracker, fn, proc, ri, lg, sync, dm>>

----------------------------------------------------------------------------
\* Bounds of the model

\* deals the board knows: ids 1..NumDeals
NumDeals == 2
\* largest max_per_order the operator writes to config.json (0 = not set)
MaxPerOrder == 1
\* longest run of successful reserve calls the board grants before it fails
\* (the board may also grant every call)
MaxBoardOk == 1
\* largest batchSize / maxTotal handed to a lone reserveIncrementally call
MaxBatch == 3
MaxMaxTotal == 6
\* deals the legacy Monitor is followed through
MaxLegacyDeals == 3
\* largest price tolerance (dollars) config.json may hold; 0 is "disabled"
MaxTolerance == 1
\* largest retail_price / payout_price of a deal put through isDealActionable
MaxPrice == 2
\* longest list of retailer links on such a deal
MaxLinks == 2
\* calls made against the tracker
MaxOps == 4

\* Program constants
MaxAttempts == 25
BatchSize == 2
DefaultAmazonMaxQty == 3
DefaultBestbuyMaxQty == 2

Retailers == {"amazon", "bestbuy"}
Deals == 1..NumDeals

Min(a, b) == IF a <= b THEN a ELSE b

----------------------------------------------------------------------------
\* BfmrWeb.reserveDeal: the results it can return

ReserveStatuses == {"reserved", "closed", "limit_reached", "failed", "unknown", "error"}

ReserveDealResult(status) == [success |-> status = "reserved", status |-> status]

\* What the deal page shows during one pass of reserveDeal.  limit is the
\* number an error text carries ("limit 1", "maximum 2"), 0 when it has none.
PageKinds ==
    {"closed_banner",    \* 'Reservation Closed' / 'Deal Expired' before the click
     "button_disabled",  \* the Reserve button is disabled
     "no_button",        \* no Reserve button on the page
     "success",          \* a success pattern, a vanished button, or no error text
     "error_closed",     \* after the click: 'reservation closed' / 'deal expired'
     "error",            \* after the click: another error text
     "throws"}           \* a Puppeteer call rejects

Pages == [kind : PageKinds, limit : 0..MaxBatch]

\* the value of `result.success` that would give status 'unknown'
EvaluateReturnsBoolean == TRUE

\* a pass that reports a disabled Reserve button as a reservation
ReservePassDisabledReserves(quantity, page) ==
    IF page.kind = "button_disabled"
    THEN [retry |-> 0, status |-> "limit_reached", success |-> TRUE, units |-> 0]
    ELSE IF page.kind = "success"
    THEN [retry |-> 0, status |-> "reserved", success |-> TRUE, units |-> quantity]
    ELSE [retry |-> 0, status |-> "failed", success |-> FALSE, units |-> 0]

\* one pass of reserveDeal(dealCode, quantity), lines 128-399, on a page:
\* either a returned value or the quantity of the recursive call (line 380)
ReservePass(quantity, page) ==
    LET final(status, units) ==
            [retry |-> 0, status |-> status, success |-> status = "reserved",
             units |-> units]
    IN CASE page.kind = "throws"          -> final("error", 0)
         [] page.kind = "closed_banner"   -> final("closed", 0)
         [] page.kind = "button_disabled" -> final("limit_reached", 0)
         [] page.kind = "no_button"       -> final("failed", 0)
         [] page.kind = "success"         ->
                IF EvaluateReturnsBoolean THEN final("reserved", quantity)
                ELSE final("unknown", 0)
         [] page.kind = "error_closed"    -> final("closed", 0)
         [] OTHER ->
                IF page.limit > 0 /\ page.limit <= 100 /\ page.limit < quantity
                THEN [retry |-> page.limit, status |-> "retry", success |-> FALSE,
                      units |-> 0]
                ELSE final("failed", 0)

\* the promise of reserveDeal rejects: init() threw before the try block
\* (line 129), or page.close() threw in the finally block (line 397), which
\* after the recursive call closes a page that line 379 has closed already
Rejected(units) == [success |-> FALSE, status |-> "rejected", units |-> units]

\* reserveDeal(dealCode, quantity): the ways it can end, with the units it
\* typed into the form when the board accepted them.  A rejection of the
\* recursive call is caught at line 395 and returned as status 'error'.
RECURSIVE reserveDeal(_)
reserveDeal(quantity) ==
    {Rejected(0)} \cup
    UNION {LET r == ReservePass(quantity, page)
               inner == IF r.retry > 0 THEN reserveDeal(r.retry) ELSE {}
               returned ==
                   IF r.retry > 0
                   THEN {IF x.status = "rejected"
                         THEN [success |-> FALSE, status |-> "error", units |-> x.units]
                         ELSE x : x \in inner}
                   ELSE {[success |-> r.success, status |-> r.status,
                          units |-> r.units]}
           IN returned \cup {Rejected(x.units) : x \in returned}
           : page \in Pages}

\* BfmrWeb.verifyReservation: the shapes of its result, relative to the claimed total
VerifyKinds == {"match", "mismatch", "not_found", "failed"}

VerifyResult(kind, claimed) ==
    CASE kind = "match"     -> [found |-> TRUE,  quantity |-> claimed, verificationFailed |-> FALSE]
      [] kind = "mismatch"  -> [found |-> TRUE,  quantity |-> claimed + 1, verificationFailed |-> FALSE]
      [] kind = "not_found" -> [found |-> FALSE, quantity |-> 0, verificationFailed |-> FALSE]
      [] OTHER              -> [found |-> FALSE, quantity |-> 0, verificationFailed |-> TRUE]

----------------------------------------------------------------------------
\* BfmrWeb.reserveIncrementally(dealCode, batchSize = 2)
\* The function declares two parameters: a third argument (the caller's
\* maxTotal) is accepted by JavaScript and never read.  The model keeps it in
\* the call's state so that statements about it can be written.

RiStart(batchSize, maxTotal) ==
    [batchSize |-> batchSize, maxTotal |-> maxTotal,
     totalReserved |-> 0, attempts |-> 0, continueReserving |-> TRUE]

\* a loop body without the safety limit on attempts
LoopBodyNoSafetyLimit(s, result) ==
    LET at == s.attempts + 1
        tr == IF result.success THEN s.totalReserved + s.batchSize ELSE s.totalReserved
    IN [s EXCEPT !.attempts = at,
                 !.totalReserved = tr,
                 !.continueReserving = result.success]

\* a loop body that keeps going after a failed reserve call
LoopBodyNoStopOnFailure(s, result) ==
    LET at == s.attempts + 1
        tr == IF result.success THEN s.totalReserved + s.batchSize ELSE s.totalReserved
    IN [s EXCEPT !.attempts = at,
                 !.totalReserved = tr,
                 !.continueReserving = at < MaxAttempts]

\* a loop body that forgets the running total when a reserve call fails
LoopBodyResetsOnFailure(s, result) ==
    LET at == s.attempts + 1
    IN [s EXCEPT !.attempts = at,
                 !.totalReserved = IF result.success THEN @ + s.batchSize ELSE 0,
                 !.continueReserving = result.success /\ at < MaxAttempts]

\* a loop body whose last else branch, the one for a status it does not
\* name, lets the loop go on
LoopBodyStopsOnNamedStatus(s, result) ==
    LET at == s.attempts + 1
        tr == IF result.success THEN s.totalReserved + s.batchSize ELSE s.totalReserved
        cr == IF result.success THEN s.continueReserving
              ELSE IF result.status = "limit_reached" THEN FALSE
              ELSE IF result.status \in {"closed", "error"} THEN FALSE
              ELSE IF result.status = "not_submitted" THEN FALSE
              ELSE s.continueReserving
    IN [s EXCEPT !.attempts = at,
                 !.totalReserved = tr,
                 !.continueReserving = IF at >= MaxAttempts THEN FALSE ELSE cr]

\* one iteration of `while (continueReserving)`
LoopBody(s, result) ==
    LET at == s.attempts + 1
        tr == IF result.success THEN s.totalReserved + s.batchSize ELSE s.totalReserved
        cr == IF result.success THEN s.continueReserving
              ELSE IF result.status = "limit_reached" THEN FALSE
              ELSE IF result.status \in {"closed", "error"} THEN FALSE
              ELSE IF result.status = "not_submitted" THEN FALSE
              ELSE FALSE
    IN [s EXCEPT !.attempts = at,
                 !.totalReserved = tr,
                 !.continueReserving = IF at >= MaxAttempts THEN FALSE ELSE cr]

\* one iteration of the same loop as src/buyer/incremental-reserve-method.js
\* writes it: other statuses are named, every failure still ends the loop
LoopBodyMethod(s, result) ==
    LET at == s.attempts + 1
        tr == IF result.success THEN s.totalReserved + s.batchSize ELSE s.totalReserved
        cr == IF result.success THEN s.continueReserving
              ELSE IF result.status \in {"closed", "error"} THEN FALSE
              ELSE IF result.status = "unknown" THEN FALSE
              ELSE FALSE
    IN [s EXCEPT !.attempts = at,
                 !.totalReserved = tr,
                 !.continueReserving = IF at >= MaxAttempts THEN FALSE ELSE cr]

\* a return that believes the tracker over the reserve calls
RiReturnStrict(s, verification) ==
    IF s.totalReserved > 0 /\ ~verification.found
    THEN [success |-> FALSE, totalReserved |-> 0,
          attempts |-> s.attempts, verificationMismatch |-> FALSE]
    ELSE IF s.totalReserved > 0 /\ verification.quantity # s.totalReserved
    THEN [success |-> TRUE, totalReserved |-> verification.quantity,
          attempts |-> s.attempts, verificationMismatch |-> TRUE]
    ELSE [success |-> s.totalReserved > 0, totalReserved |-> s.totalReserved,
          attempts |-> s.attempts, verificationMismatch |-> FALSE]

\* the value returned after the loop, given what verifyReservation answered
RiReturn(s, verification) ==
    IF s.totalReserved > 0
       /\ verification.found
       /\ verification.quantity # s.totalReserved
    THEN [success |-> TRUE, totalReserved |-> s.totalReserved,
          attempts |-> s.attempts, verificationMismatch |-> TRUE]
    ELSE [success |-> s.totalReserved > 0, totalReserved |-> s.totalReserved,
          attempts |-> s.attempts, verificationMismatch |-> FALSE]

\* the whole loop against a board that grants `nOk` reserve calls and then
\* answers `failStatus`
RECURSIVE RunLoop(_, _, _)
RunLoop(s, nOk, failStatus) ==
    IF ~s.continueReserving THEN s
    ELSE RunLoop(LoopBody(s, ReserveDealResult(IF nOk > 0 THEN "reserved" ELSE failStatus)),
                 IF nOk > 0 THEN nOk - 1 ELSE 0, failStatus)

----------------------------------------------------------------------------
\* Specification ReserveSpec: one reserveIncrementally call, any board

RiIdle == [pc |-> "loop", s |-> RiStart(1, 1), calls |-> <<>>,
           stale |-> FALSE, late |-> FALSE, submitted |-> 0,
           ret |-> [success |-> FALSE, totalReserved |-> 0, attempts |-> 0,
                    verificationMismatch |-> FALSE]]

\* await this.reserveDeal(dealCode, batchSize) and the rest of the iteration
RiCall(result) ==
    /\ ri.pc = "loop"
    /\ ri.s.continueReserving
    /\ LET s2 == IF result.status = "rejected"
                 THEN [ri.s EXCEPT !.attempts = @ + 1]
                 ELSE LoopBody(ri.s, result)
       IN ri' = [ri EXCEPT !.s = s2,
                           !.calls = Append(@, result.status),
                           \* units the calls so far have put on the board
                           !.submitted = @ + result.units,
                           \* a call issued after an earlier call had failed
                           !.stale = @ \/ (\E i \in 1..Len(ri.calls) : ri.calls[i] # "reserved"),
                           \* a call issued with the target already reached
                           !.late = @ \/ ri.s.totalReserved >= ri.s.maxTotal,
                           \* a rejected reserveDeal ends the call: the loop
                           \* has no try block
                           !.pc = IF result.status = "rejected" THEN "threw"
                                  ELSE IF s2.continueReserving THEN "loop"
                                  ELSE IF s2.totalReserved > 0 THEN "verify" ELSE "done",
                           !.ret = IF result.status # "rejected"
                                      /\ ~s2.continueReserving /\ s2.totalReserved = 0
                                   THEN RiReturn(s2, VerifyResult("failed", 0))
                                   ELSE @]
    /\ UNCHANGED <<isRunning, isChecking, intervalId, runResults, processingDeals,
                   config, credentials, amazonBuyer, tracker, fn, proc, lg, sync, dm>>

\* await this.verifyReservation(dealCode), then return
RiVerify(kind) ==
    /\ ri.pc = "verify"
    /\ ri' = [ri EXCEPT !.pc = "done",
                        !.ret = RiReturn(ri.s, VerifyResult(kind, ri.s.totalReserved))]
    /\ UNCHANGED <<isRunning, isChecking, intervalId, runResults, processingDeals,
                   config, credentials, amazonBuyer, tracker, fn, proc, lg, sync, dm>>

RiNext ==
    \/ \E result \in reserveDeal(ri.s.batchSize) : RiCall(result)
    \/ \E kind \in VerifyKinds : RiVerify(kind)

----------------------------------------------------------------------------
\* config.json as the Monitor reads it

Configs ==
    [amazon_enabled : BOOLEAN, amazon_max_per_order : 0..MaxPerOrder,
     bestbuy_enabled : BOOLEAN, bestbuy_max_per_order : 0..MaxPerOrder,
     price_tolerance : 0..MaxTolerance]

\* config.retailer_settings?.amazon?.max_per_order || 3
AmazonMaxQty(cfg) ==
    IF cfg.amazon_max_per_order # 0 THEN cfg.amazon_max_per_order ELSE DefaultAmazonMaxQty

\* config.retailer_settings?.bestbuy?.max_per_order || 2
BestbuyMaxQty(cfg) ==
    IF cfg.bestbuy_max_per_order # 0 THEN cfg.bestbuy_max_per_order ELSE DefaultBestbuyMaxQty

\* The deals of the board.  Deal d carries an Amazon link when d <= 2 and a
\* Best Buy link when d is odd (deal 1: both, deal 2: Amazon only, deal 3:
\* Best Buy only); its prices pass the margin and payout filters.
HasAmazonLink(d) == d <= 2
HasBestbuyLink(d) == d % 2 = 1

\* DealManager.isDealActionable, for a deal that is open, not yet ordered and
\* within the margin and payout filters: the retailer check
IsDealActionable(d, cfg) ==
    LET amazonEnabled == cfg.amazon_enabled
        bestbuyEnabled == cfg.bestbuy_enabled
        hasActionableRetailer ==
            \/ HasAmazonLink(d) /\ amazonEnabled
            \/ HasBestbuyLink(d) /\ bestbuyEnabled
    IN hasActionableRetailer

\* the responses of bfmrClient.getDeals: the deals of the board, in order,
\* any of them missing
RECURSIVE SubSeqs(_)
SubSeqs(n) ==
    IF n = 0 THEN {<<>>}
    ELSE LET r == SubSeqs(n - 1) IN r \cup {Append(q, n) : q \in r}

ApiResponses == SubSeqs(NumDeals)

RECURSIVE SelectSeq2(_, _, _)
SelectSeq2(q, pd, cfg) ==
    IF q = <<>> THEN <<>>
    ELSE LET rest == SelectSeq2(Tail(q), pd, cfg)
         IN IF Head(q) \notin pd /\ IsDealActionable(Head(q), cfg)
            THEN <<Head(q)>> \o rest ELSE rest

\* DealManager.fetchAndFilterDeals, lines 166-184: the deals of the response
\* that are not in flight and are actionable
ActionableDeals(apiDeals, pd, cfg) == SelectSeq2(apiDeals, pd, cfg)

SeqToSet(q) == {q[i] : i \in 1..Len(q)}

----------------------------------------------------------------------------
\* DealManager.fetchAndFilterDeals with its hybrid discovery
\* (src/unnamed/part_008, 67-190).  The slug of deal d is d.

DmOff ==
    [pc |-> "off", bfmrWeb |-> FALSE, api |-> <<>>, apiDeals |-> <<>>,
     missing |-> <<>>, result |-> <<>>,
     \* how scrapeDealSlugs ended, the hidden deals getDealBySlug delivered,
     \* and processingDeals when the call began
     scrape |-> "none", hidden |-> {}, lost |-> {}, pd |-> {}]

\* lines 162-190: an empty list returns at once, otherwise the filter loop
DmFilter(d, pd, cfg) ==
    [d EXCEPT !.pc = "done",
              !.result = IF Len(d.apiDeals) = 0 THEN <<>>
                         ELSE ActionableDeals(d.apiDeals, pd, cfg)]

\* the frame of a step of fetchAndFilterDeals: the deals returned are marked
DmCommit(d) ==
    /\ dm' = d
    /\ processingDeals' = IF d.pc = "done"
                          THEN processingDeals \cup SeqToSet(d.result)
                          ELSE processingDeals
    /\ UNCHANGED <<isRunning, isChecking, intervalId, runResults, config,
                   credentials, amazonBuyer, tracker, fn, proc, ri, lg, sync>>

\* await this.bfmrClient.getDeals() (line 72); its exception is caught at
\* line 186 and an empty list returned
GetDeals(outcome, a) ==
    /\ dm.pc = "getDeals"
    /\ DmCommit(IF outcome = "throws"
                THEN [dm EXCEPT !.pc = "done", !.result = <<>>]
                ELSE LET d == [dm EXCEPT !.api = a, !.apiDeals = a]
                     IN IF dm.bfmrWeb THEN [d EXCEPT !.pc = "scrape"]
                        ELSE DmFilter(d, processingDeals, config))

\* a hybrid discovery without a try block of its own: the exception of
\* scrapeDealSlugs reaches the catch of line 186
ScrapeThrowsToOuterCatch(d) ==
    [d EXCEPT !.scrape = "throws", !.pc = "done", !.result = <<>>]

\* scrapeDealSlugs rejects (its init() is outside its try block, src/unnamed/
\* part_000 line 770): caught at line 145, the finally block follows
ScrapeThrows(d) == [d EXCEPT !.scrape = "throws", !.pc = "close"]

\* await this.bfmrWeb.scrapeDealSlugs() (line 84) and lines 87-93
ScrapeDealSlugs(outcome, slugs) ==
    /\ dm.pc = "scrape"
    /\ DmCommit(IF outcome = "throws" THEN ScrapeThrows(dm)
                ELSE IF Len(slugs) = 0
                THEN [dm EXCEPT !.scrape = "empty", !.pc = "close"]
                ELSE LET missingSlugs ==
                             SelectSeq(slugs, LAMBDA x : x \notin SeqToSet(dm.apiDeals))
                     IN [dm EXCEPT !.scrape = "slugs",
                                   !.missing = missingSlugs,
                                   !.pc = IF Len(missingSlugs) > 0 THEN "hidden"
                                          ELSE "close"])

\* one pass of the loop over missingSlugs (lines 95-141): getDealBySlug
\* returns the deal or null (src/src/bfmr-client.js, 71-83, catches every
\* error); scrapeDealPage may throw, which line 126 catches
GetDealBySlug(outcome) ==
    /\ dm.pc = "hidden"
    /\ LET slug == Head(dm.missing)
           rest == Tail(dm.missing)
           d == IF outcome = "null"
                THEN [dm EXCEPT !.lost = @ \cup {slug}]
                ELSE [dm EXCEPT !.hidden = @ \cup {slug},
                                !.apiDeals = IF IsDealActionable(slug, config)
                                             THEN Append(@, slug) ELSE @]
       IN DmCommit([d EXCEPT !.missing = rest,
                             !.pc = IF Len(rest) > 0 THEN "hidden" ELSE "close"])

\* await this.bfmrWeb.close() in the finally block (lines 149-158), its
\* exception caught on the spot; then the filter loop
CloseScraper(outcome) ==
    /\ dm.pc = "close"
    /\ DmCommit(DmFilter(dm, processingDeals, config))

DmNext ==
    \/ \E outcome \in {"returns", "throws"}, a \in ApiResponses : GetDeals(outcome, a)
    \/ \E outcome \in {"returns", "throws"}, slugs \in ApiResponses :
          ScrapeDealSlugs(outcome, slugs)
    \/ \E outcome \in {"deal", "null", "deal_page_scrape_throws"} : GetDealBySlug(outcome)
    \/ \E outcome \in {"returns", "throws"} : CloseScraper(outcome)

----------------------------------------------------------------------------
\* The invocations of checkDeals and retryDeal that are under way

\* two slots for checkDeals invocations, one for a retryDeal invocation
CheckProcs == {1, 2}
RetryProcs == {3}
Procs == CheckProcs \cup RetryProcs

NoCount == [r \in Retailers |-> 0]

\* no price tolerance has been read in this processDeal
NotRead == 0 - 1

\* the locals of an invocation that has not begun
Idle ==
    [pc |-> "idle", kind |-> "none", deal |-> 0,
     queue |-> <<>>, fetched |-> <<>>, started |-> {}, threw |-> FALSE,
     amazonEnabled |-> FALSE, amazonMaxQty |-> 0,
     bestbuyEnabled |-> FALSE, bestbuyMaxQty |-> 0, amazonLink |-> FALSE,
     amazonVal |-> "none", validRetailers |-> <<>>, totalBuyable |-> 0,
     maxTotal |-> 0, totalReserved |-> 0, attempts |-> 0, reserved |-> FALSE,
     remaining |-> 0, idx |-> 1, qtyToBuy |-> 0,
     alloc |-> NoCount, recs |-> NoCount, acted |-> {},
     tolerance |-> NotRead, result |-> "none", login |-> "none",
     buyStatus |-> "none", unreserveCalls |-> 0,
     bestbuyLink |-> FALSE, bbScraped |-> FALSE, bbUrl |-> "none",
     threwAt |-> "none"]

\* retryDeal returns or rejects (lines 1630-1642).  Its locals are gone; the
\* model keeps what it was asked for, what getDeals delivered, whether
\* processDeal was started and what came back.
RetryEnd(l, result) ==
    [Idle EXCEPT !.kind = "retry", !.deal = l.deal, !.fetched = l.fetched,
                 !.started = l.started, !.result = result]

\* the pcs at which an invocation is inside processDeal
InProcessDeal == {"valAmazon", "bestbuy", "reserve", "reserveCall", "buyAmazon"}

\* the pcs of the try block of checkDeals (lines 1346-1370)
InTry == {"checkLogin", "fetch", "pdDone"} \cup InProcessDeal

\* the pcs of the finally block of checkDeals
InCleanup == {"email", "closeAmazon", "closeBestbuy", "closeBfmr"}

\* the world an invocation's synchronous code reads and writes
World(p) == [l |-> proc[p], pd |-> processingDeals, chk |-> isChecking, rr |-> runResults]

Commit(p, w) ==
    /\ proc' = [proc EXCEPT ![p] = w.l]
    /\ processingDeals' = w.pd
    /\ isChecking' = w.chk
    /\ runResults' = w.rr

\* DealManager.markAsFailed(deal.deal_id)
MarkAsFailed(w) == [w EXCEPT !.pd = @ \ {w.l.deal}]

\* checkDeals, lines 1373-1380: entering the finally block.  The locals of
\* processDeal are gone; the model keeps which deals were fetched and started.
Finally(w) ==
    [w EXCEPT !.chk = FALSE,
              !.l = [Idle EXCEPT !.pc = IF w.rr THEN "email" ELSE "closeAmazon",
                                 !.kind = w.l.kind, !.fetched = w.l.fetched,
                                 !.started = w.l.started, !.threw = w.l.threw,
                                 !.threwAt = w.l.threwAt]]

----------------------------------------------------------------------------
\* Monitor.processDeal (src/unnamed/part_000, 1393-1550), cut at its awaits

RECURSIVE AllocNext(_)

\* a checkDeals that releases isChecking at the end of its try block, not
\* in its finally block: an exception leaves the flag set
PDThrowKeepsFlag(w) ==
    IF w.l.kind = "retry" THEN [w EXCEPT !.l = RetryEnd(w.l, "threw")]
    ELSE [Finally([w EXCEPT !.l.threw = TRUE, !.l.threwAt = w.l.pc])
            EXCEPT !.chk = w.chk]

\* an exception leaves processDeal: checkDeals catches it (line 1371) and goes
\* to its finally block; retryDeal lets it through to the route handler
PDThrow(w) ==
    IF w.l.kind = "retry" THEN [w EXCEPT !.l = RetryEnd(w.l, "threw")]
    ELSE Finally([w EXCEPT !.l.threw = TRUE, !.l.threwAt = w.l.pc])

\* processDeal returns: its promise resolves, the caller resumes in a later
\* job
PDReturn(w) ==
    [w EXCEPT !.l.pc = "pdDone", !.l.bbScraped = FALSE, !.l.bbUrl = "none"]

\* a Phase 2 that goes on to the board with no validated retailer
Phase2NoValidCheck(w) ==
    IF ~credentials
    THEN PDReturn(MarkAsFailed(w))
    ELSE [w EXCEPT !.l.pc = "reserve", !.l.maxTotal = w.l.totalBuyable]

\* a Phase 2 that asks the board for the limits of every enabled retailer
Phase2AllEnabled(w) ==
    IF Len(w.l.validRetailers) = 0
    THEN PDReturn(MarkAsFailed(w))
    ELSE IF ~credentials
    THEN PDReturn(MarkAsFailed(w))
    ELSE [w EXCEPT !.l.pc = "reserve",
                   !.l.maxTotal = (IF w.l.amazonEnabled THEN w.l.amazonMaxQty ELSE 0)
                                + (IF w.l.bestbuyEnabled THEN w.l.bestbuyMaxQty ELSE 0)]

\* lines 1492-1514: PHASE 2, and the credentials check of PHASE 3
Phase2(w) ==
    IF Len(w.l.validRetailers) = 0
    THEN PDReturn(MarkAsFailed(w))
    ELSE IF ~credentials
    THEN PDReturn(MarkAsFailed(w))
    ELSE [w EXCEPT !.l.pc = "reserve", !.l.maxTotal = w.l.totalBuyable]

\* lines 1455-1464: Best Buy is looked at whatever Amazon's validation gave
AfterAmazon(w) ==
    IF w.l.bestbuyEnabled /\ credentials
    THEN [w EXCEPT !.l.pc = "bestbuy"]
    ELSE Phase2(w)

\* lines 1393-1437: reload the config, resolve the links
PDStart(w) ==
    LET d == Head(w.l.queue)
        l1 == [w.l EXCEPT
                 !.deal = d, !.started = @ \cup {d},
                 !.amazonEnabled = config.amazon_enabled,
                 !.amazonMaxQty = AmazonMaxQty(config),
                 !.bestbuyEnabled = config.bestbuy_enabled,
                 !.bestbuyMaxQty = BestbuyMaxQty(config),
                 !.amazonLink = HasAmazonLink(d),
                 !.amazonVal = "none", !.validRetailers = <<>>, !.totalBuyable = 0,
                 !.maxTotal = 0, !.totalReserved = 0, !.attempts = 0,
                 !.reserved = FALSE, !.remaining = 0, !.idx = 1, !.qtyToBuy = 0,
                 !.alloc = NoCount, !.recs = NoCount, !.acted = {},
                 !.tolerance = NotRead, !.login = "none",
                 !.buyStatus = "none", !.unreserveCalls = 0,
                 !.bestbuyLink = HasBestbuyLink(d), !.bbScraped = FALSE,
                 !.bbUrl = "none"]
        w1 == [w EXCEPT !.l = l1]
    IN IF l1.amazonEnabled /\ l1.amazonLink
       THEN [w1 EXCEPT !.l.pc = "valAmazon"]
       ELSE AfterAmazon(w1)

\* a retailer that passed validation joins the pool (lines 1443-1449, 1475-1482)
PushValid(l, name, maxQty) ==
    [l EXCEPT !.validRetailers = Append(@, [name |-> name, maxQty |-> maxQty]),
              !.totalBuyable = @ + maxQty]

\* a quantity that ignores what is left of the reservation
QtyToBuyWholeLimit(remaining, maxQty) == maxQty

\* line 1534: Math.min(remaining, retailer.maxQty)
QtyToBuy(remaining, maxQty) == Min(remaining, maxQty)

\* Monitor.logBestBuyForManualAdd (lines 1588-1612): one history record, one
\* summary entry
LogBestBuyForManualAdd(w, quantity) ==
    [w EXCEPT !.l.recs["bestbuy"] = @ + 1,
              !.l.acted = @ \cup {"bestbuy"},
              !.rr = TRUE]

\* lines 1531-1549: PHASE 4, the loop over the validated retailers
AllocNext(w) ==
    IF w.l.idx > Len(w.l.validRetailers) \/ w.l.remaining <= 0
    THEN PDReturn(MarkAsFailed(w))
    ELSE LET retailer == w.l.validRetailers[w.l.idx]
             qty == QtyToBuy(w.l.remaining, retailer.maxQty)
         IN IF retailer.name = "amazon"
            THEN [w EXCEPT !.l.pc = "buyAmazon", !.l.qtyToBuy = qty]
            ELSE LET w1 == LogBestBuyForManualAdd(w, qty)
                 IN AllocNext([w1 EXCEPT !.l.alloc["bestbuy"] = qty,
                                         !.l.remaining = @ - qty,
                                         !.l.idx = @ + 1])

\* await this.amazonBuyer.validateProduct(...) returns or throws (line 1439)
ValidateAmazon(p, outcome) ==
    /\ proc[p].pc = "valAmazon"
    /\ LET w == World(p)
       IN CASE outcome = "valid" ->
                 Commit(p, AfterAmazon([w EXCEPT
                     !.l = PushValid([w.l EXCEPT
                                        !.amazonVal = "valid",
                                        !.tolerance = amazonBuyer.price_tolerance],
                                     "amazon", w.l.amazonMaxQty)]))
            [] outcome = "invalid" ->
                 Commit(p, AfterAmazon([w EXCEPT !.l.amazonVal = "invalid"]))
            [] OTHER -> Commit(p, PDThrow(w))
    /\ UNCHANGED <<isRunning, intervalId, config, credentials, amazonBuyer, tracker, fn, ri, lg, sync, dm>>

\* lines 1464-1488, the Best Buy branch: await bfmrWeb.login (its result is
\* not looked at), await scrapeDealPage, await bestbuyBuyer.validateProduct.
\* Nothing the Monitor shares is read or written between these awaits.
\* The bestbuyLink of lines 1412-1423 is not read: the page is scraped
\* whatever it holds (bbScraped), and the URL that is validated and pushed
\* is the scraped one (bbUrl), or none when the scrape found none.
BestBuyOutcomes ==
    {"login_throws", "scrape_throws", "no_url", "validate_throws", "invalid", "valid"}

ValidateBestbuy(p, outcome) ==
    /\ proc[p].pc = "bestbuy"
    /\ LET w == World(p)
           ws == [w EXCEPT !.l.bbScraped = TRUE]
           wv == [ws EXCEPT !.l.bbUrl = "scraped"]
       IN CASE outcome = "valid" ->
                 Commit(p, Phase2([wv EXCEPT
                     !.l = PushValid(wv.l, "bestbuy", wv.l.bestbuyMaxQty)]))
            [] outcome = "invalid" -> Commit(p, Phase2(wv))
            [] outcome = "no_url" -> Commit(p, Phase2(ws))
            [] OTHER -> Commit(p, PDThrow(w))
    /\ UNCHANGED <<isRunning, intervalId, config, credentials, amazonBuyer, tracker, fn, ri, lg, sync, dm>>

\* what the board does to the reserve calls of one reserveIncrementally: it
\* grants the first nOk of them and answers the next with a failure status
BoardBehaviours ==
    ((0..MaxBoardOk) \X (ReserveStatuses \ {"reserved"}))
        \cup {<<MaxAttempts, "limit_reached">>}

\* the values reserveIncrementally(dealCode, batchSize, maxTotal) can return
ReserveResults(batchSize, maxTotal) ==
    UNION {{RiReturn(s, VerifyResult(k, s.totalReserved)) : k \in VerifyKinds} :
             s \in {RunLoop(RiStart(batchSize, maxTotal), b[1], b[2]) :
                      b \in BoardBehaviours}}

\* what BfmrWeb.login returns (lines 54-126): {success: true},
\* {success: false, fatal: true} on an error box, {success: false,
\* fatal: false} on anything else; it rejects when the browser launch before
\* its try block fails
LoginResults == {"success", "fatal", "non_fatal"}

\* line 1514: await bfmrWeb.login(...) returns `outcome`, which processDeal
\* does not look at, or rejects; then
\* bfmrWeb.reserveIncrementally(deal.deal_code, 2, totalBuyable) is called
\* (line 1517).  login holds what the login gave while that call is under
\* way.
BoardLogin(p, outcome) ==
    /\ proc[p].pc = "reserve"
    /\ LET w == World(p)
       IN IF outcome = "throw"
          THEN Commit(p, PDThrow(w))
          ELSE Commit(p, [w EXCEPT !.l.pc = "reserveCall", !.l.login = outcome,
                                   !.l.bbScraped = FALSE, !.l.bbUrl = "none"])
    /\ UNCHANGED <<isRunning, intervalId, config, credentials, amazonBuyer, tracker, fn, ri, lg, sync, dm>>

\* lines 1517-1529: await
\* bfmrWeb.reserveIncrementally(deal.deal_code, 2, totalBuyable) returns
Reserve(p, reserveResult) ==
    /\ proc[p].pc = "reserveCall"
    /\ LET w == World(p)
           w1 == [w EXCEPT !.l.login = "none",
                           !.l.reserved = TRUE,
                           !.l.totalReserved = reserveResult.totalReserved,
                           !.l.attempts = reserveResult.attempts]
       IN IF ~reserveResult.success \/ reserveResult.totalReserved = 0
          THEN Commit(p, PDReturn(MarkAsFailed(w1)))
          ELSE Commit(p, AllocNext([w1 EXCEPT
                   !.l.remaining = reserveResult.totalReserved, !.l.idx = 1]))
    /\ UNCHANGED <<isRunning, intervalId, config, credentials, amazonBuyer, tracker, fn, ri, lg, sync, dm>>

\* reserveIncrementally rejects: reserveDeal lets an exception escape (the
\* browser launch before its try block, page.close in its finally)
ReserveThrows(p) ==
    /\ proc[p].pc = "reserveCall"
    /\ Commit(p, PDThrow(World(p)))
    /\ UNCHANGED <<isRunning, intervalId, config, credentials, amazonBuyer, tracker, fn, ri, lg, sync, dm>>

\* what AmazonBuyer.buyItem gives buyFromAmazon (src/src/buyer/amazon.js,
\* 340-594): the status of its result, "failed" standing for used_or_renewed,
\* verification_failed and error, or an exception
BuyOutcomes == {"added_to_cart", "price_mismatch", "out_of_stock", "failed", "throw"}

\* Monitor.buyFromAmazon (lines 1553-1585) once buyItem has returned or
\* thrown.  Neither branch calls bfmrWeb.unreserveDeal: unreserveCalls, the
\* number of such calls made for the deal, is left as it is.
BuyFromAmazon(w, outcome) ==
    CASE outcome = "added_to_cart" ->
           [w EXCEPT !.l.recs["amazon"] = @ + 1,
                     !.l.acted = @ \cup {"amazon"},
                     !.l.buyStatus = outcome,
                     !.rr = TRUE]
      [] outcome \in {"price_mismatch", "out_of_stock", "failed"} ->
           [w EXCEPT !.l.recs["amazon"] = @ + 1,
                     !.l.acted = @ \cup {"amazon"},
                     !.l.buyStatus = outcome]
      [] OTHER ->
           [w EXCEPT !.l.acted = @ \cup {"amazon"},
                     !.l.buyStatus = outcome]

\* await this.buyFromAmazon(...) returns (lines 1537, 1542)
BuyAmazon(p, outcome) ==
    /\ proc[p].pc = "buyAmazon"
    /\ LET w == BuyFromAmazon(World(p), outcome)
       IN Commit(p, AllocNext([w EXCEPT !.l.alloc["amazon"] = w.l.qtyToBuy,
                                        !.l.remaining = @ - w.l.qtyToBuy,
                                        !.l.idx = @ + 1]))
    /\ UNCHANGED <<isRunning, intervalId, config, credentials, amazonBuyer, tracker, fn, ri, lg, sync, dm>>

----------------------------------------------------------------------------
\* Monitor.checkDeals (src/unnamed/part_000, 1335-1392)

\* lines 1335-1349: the guard, up to the first await
CheckDealsBegin(w) ==
    IF w.chk
    THEN [w EXCEPT !.l = Idle]
    ELSE [w EXCEPT !.chk = TRUE, !.rr = FALSE,
                   !.l = [Idle EXCEPT !.pc = "checkLogin", !.kind = "check"]]

\* config.sync_orders.enabled, syncOrders' flag, its interval, the delayed
\* first sync of startSyncPolling, the number of invocations inside
\* amazonTracker.sync, and what the last trigger of syncOrders did
SyOff ==
    [enabled |-> FALSE, isSyncing |-> FALSE, syncIntervalId |-> FALSE,
     firstSync |-> FALSE, running |-> 0, last |-> "none"]

\* Monitor.startSyncPolling (lines 1284-1296): nothing when the interval is
\* armed, else a timeout for the first sync and the interval
startSyncPolling(sy) ==
    IF sy.syncIntervalId THEN sy
    ELSE [sy EXCEPT !.firstSync = TRUE, !.syncIntervalId = TRUE]

\* Monitor.start (lines 1248-1270) with startPolling (1272-1282): the first
\* check runs at once, then the interval is armed (config.auto_mode is left at
\* its default); startSyncPolling when config.sync_orders.enabled
Start(p) ==
    /\ ~isRunning
    /\ proc[p].pc = "idle"
    /\ isRunning' = TRUE
    /\ IF ~intervalId
       THEN /\ Commit(p, CheckDealsBegin(World(p)))
            /\ intervalId' = TRUE
       ELSE UNCHANGED <<proc, processingDeals, isChecking, runResults, intervalId>>
    /\ sync' = IF sync.enabled THEN startSyncPolling(sync) ELSE sync
    /\ UNCHANGED <<config, credentials, amazonBuyer, tracker, fn, ri, lg, dm>>

\* the setInterval callback of startPolling (line 1281)
TimerTick(p) ==
    /\ intervalId
    /\ proc[p].pc = "idle"
    /\ Commit(p, CheckDealsBegin(World(p)))
    /\ UNCHANGED <<isRunning, intervalId, config, credentials, amazonBuyer, tracker, fn, ri, lg, sync, dm>>

\* Monitor.runOnce (lines 1330-1333), POST /api/monitor/check
RunOnce(p) ==
    /\ proc[p].pc = "idle"
    /\ Commit(p, CheckDealsBegin(World(p)))
    /\ UNCHANGED <<isRunning, intervalId, config, credentials, amazonBuyer, tracker, fn, ri, lg, sync, dm>>

\* await this.amazonBuyer.checkLoginStatus() (lines 1349-1354); when not
\* logged in, this.stop() runs up to its first await: stopPolling and
\* isRunning = false
CheckLoginStatus(p, outcome) ==
    /\ proc[p].pc = "checkLogin"
    /\ LET w == World(p)
       IN CASE outcome = "logged_in" ->
                 /\ Commit(p, [w EXCEPT !.l.pc = "fetch"])
                 /\ UNCHANGED <<isRunning, intervalId>>
            [] outcome = "not_logged_in" ->
                 /\ Commit(p, Finally(w))
                 /\ isRunning' = FALSE
                 /\ intervalId' = FALSE
            [] OTHER ->
                 /\ Commit(p, Finally([w EXCEPT !.l.threw = TRUE]))
                 /\ UNCHANGED <<isRunning, intervalId>>
    /\ UNCHANGED <<config, credentials, amazonBuyer, tracker, fn, ri, lg, sync, dm>>

\* await this.dealManager.fetchAndFilterDeals() (lines 1357-1369): the deals
\* picked are marked in flight, then the first processDeal starts
FetchAndFilterDeals(p, apiDeals) ==
    /\ proc[p].pc = "fetch"
    /\ LET w == World(p)
           deals == ActionableDeals(apiDeals, w.pd, config)
           w1 == [w EXCEPT !.pd = @ \cup SeqToSet(deals),
                           !.l.queue = deals, !.l.fetched = deals]
       IN IF Len(deals) = 0
          THEN Commit(p, Finally(w1))
          ELSE Commit(p, PDStart(w1))
    /\ UNCHANGED <<isRunning, intervalId, config, credentials, amazonBuyer, tracker, fn, ri, lg, sync, dm>>

\* await emailService.sendSummaryEmail(this.runResults) (line 1378); an
\* exception leaves the finally block
SendSummaryEmail(p, outcome) ==
    /\ proc[p].pc = "email"
    /\ proc' = [proc EXCEPT ![p] = IF outcome = "returns"
                                   THEN [@ EXCEPT !.pc = "closeAmazon", !.threwAt = "none"]
                                   ELSE Idle]
    /\ UNCHANGED <<isRunning, isChecking, intervalId, runResults, processingDeals,
                   config, credentials, amazonBuyer, tracker, fn, ri, lg, sync, dm>>

\* lines 1382-1390: amazonBuyer.closeBrowser, bestbuyBuyer.closeBrowser and
\* bfmrWeb.close, awaited one after the other in one try block: an exception
\* skips the closes that follow.  The Best Buy close catches its own errors
\* (src/unnamed/part_003, 473-482); the other two do not.
CloseBrowsers(p, outcome) ==
    /\ proc[p].pc \in {"closeAmazon", "closeBestbuy", "closeBfmr"}
    /\ outcome = "throw" => proc[p].pc # "closeBestbuy"
    /\ proc' = [proc EXCEPT ![p] =
                  IF outcome = "returns" /\ @.pc = "closeAmazon"
                  THEN [@ EXCEPT !.pc = "closeBestbuy", !.threwAt = "none"]
                  ELSE IF outcome = "returns" /\ @.pc = "closeBestbuy"
                  THEN [@ EXCEPT !.pc = "closeBfmr", !.threwAt = "none"]
                  ELSE Idle]
    /\ UNCHANGED <<isRunning, isChecking, intervalId, runResults, processingDeals,
                   config, credentials, amazonBuyer, tracker, fn, ri, lg, sync, dm>>

\* `await this.processDeal(deal)` resumes: checkDeals takes the next deal of
\* its for loop (line 1367) or enters finally; retryDeal returns (line 1642)
ProcessDealReturns(p) ==
    /\ proc[p].pc = "pdDone"
    /\ LET w == World(p)
           w1 == [w EXCEPT !.l.queue = Tail(@)]
       IN IF w.l.kind = "retry"
          THEN Commit(p, [w EXCEPT !.l = RetryEnd(w.l, "completed")])
          ELSE IF w1.l.queue # <<>> THEN Commit(p, PDStart(w1))
          ELSE Commit(p, Finally(w1))
    /\ UNCHANGED <<isRunning, intervalId, config, credentials, amazonBuyer, tracker, fn, ri, lg, sync, dm>>

----------------------------------------------------------------------------
\* Monitor.retryDeal (src/unnamed/part_000, 1614-1643), POST /api/monitor/retry

\* lines 1614-1625: the isRunning guard, then getDeals is awaited
RetryDeal(p, dealCode) ==
    /\ isRunning
    /\ proc[p].pc = "idle"
    /\ proc' = [proc EXCEPT ![p] = [Idle EXCEPT !.pc = "retryGet", !.kind = "retry",
                                                !.deal = dealCode]]
    /\ UNCHANGED <<isRunning, isChecking, intervalId, runResults, processingDeals,
                   config, credentials, amazonBuyer, tracker, fn, ri, lg, sync, dm>>

\* lines 1625-1640: the fresh list arrives; the deal is looked up in it and
\* processed (processedDeals.delete touches another set than processingDeals)
RetryGetDealsUnchecked(p, apiDeals) ==
    /\ proc[p].pc = "retryGet"
    /\ LET w == World(p)
       IN Commit(p, PDStart([w EXCEPT !.l.queue = <<proc[p].deal>>,
                                      !.l.fetched = apiDeals]))
    /\ UNCHANGED <<isRunning, intervalId, config, credentials, amazonBuyer, tracker, fn, ri, lg, sync, dm>>

RetryGetDeals(p, apiDeals) ==
    /\ proc[p].pc = "retryGet"
    /\ LET w == World(p)
       IN IF proc[p].deal \in SeqToSet(apiDeals)
          THEN Commit(p, PDStart([w EXCEPT !.l.queue = <<proc[p].deal>>,
                                           !.l.fetched = apiDeals]))
          ELSE Commit(p, [w EXCEPT
                   !.l = RetryEnd([w.l EXCEPT !.fetched = apiDeals], "not_found")])
    /\ UNCHANGED <<isRunning, intervalId, config, credentials, amazonBuyer, tracker, fn, ri, lg, sync, dm>>

\* getDeals rethrows (src/src/bfmr-client.js line 67)
RetryGetDealsThrows(p) ==
    /\ proc[p].pc = "retryGet"
    /\ proc' = [proc EXCEPT ![p] = RetryEnd(proc[p], "threw")]
    /\ UNCHANGED <<isRunning, isChecking, intervalId, runResults, processingDeals,
                   config, credentials, amazonBuyer, tracker, fn, ri, lg, sync, dm>>

----------------------------------------------------------------------------
\* BfmrWeb.unreserveDeal and BfmrWeb.verifyReservation against the tracker
\* page of the board.  The board is an in-memory ledger: it holds a deal code
\* from an accepted reservation until the Cancel button is pressed for its row.

Codes == {1, 2}

\* `await this.ensureBrowser()`: BfmrWeb has the methods init, login,
\* reserveDeal, scrapeDealPage, scrapeDealSlugs, reserveIncrementally,
\* unreserveDeal, verifyReservation and close; the call is a TypeError
EnsureBrowserThrows == TRUE

\* unreserveDeal(dealCode), lines 1040-1123: its result and the board after it
unreserveDeal(board, code) ==
    IF EnsureBrowserThrows
    THEN [success |-> FALSE, board |-> board]
    ELSE IF code \notin board
    THEN [success |-> FALSE, board |-> board]
    ELSE [success |-> TRUE, board |-> board \ {code}]

\* verifyReservation(dealCode), lines 1130-1198
verifyReservation(board, code) ==
    IF EnsureBrowserThrows
    THEN [found |-> FALSE, verificationFailed |-> TRUE]
    ELSE [found |-> code \in board, verificationFailed |-> FALSE]

TrOff == [on |-> FALSE, board |-> {}, log |-> <<>>]

\* await bfmrWeb.reserveDeal(code, BatchSize)
TrReserveDeal(code, r) ==
    /\ tracker.on
    /\ Len(tracker.log) < MaxOps
    /\ tracker' = [tracker EXCEPT
                     !.board = IF r.units > 0 THEN @ \cup {code} ELSE @,
                     !.log = Append(@, [op |-> "reserve", code |-> code,
                                        success |-> r.success, status |-> r.status,
                                        found |-> FALSE,
                                        verificationFailed |-> FALSE])]
    /\ UNCHANGED <<isRunning, isChecking, intervalId, runResults, processingDeals,
                   config, credentials, amazonBuyer, fn, proc, ri, lg, sync, dm>>

\* await bfmrWeb.unreserveDeal(code)
TrUnreserveDeal(code) ==
    /\ tracker.on
    /\ Len(tracker.log) < MaxOps
    /\ LET r == unreserveDeal(tracker.board, code)
       IN tracker' = [tracker EXCEPT
                        !.board = r.board,
                        !.log = Append(@, [op |-> "unreserve", code |-> code,
                                           success |-> r.success, status |-> "none",
                                           found |-> FALSE,
                                           verificationFailed |-> FALSE])]
    /\ UNCHANGED <<isRunning, isChecking, intervalId, runResults, processingDeals,
                   config, credentials, amazonBuyer, fn, proc, ri, lg, sync, dm>>

\* await bfmrWeb.verifyReservation(code)
TrVerifyReservation(code) ==
    /\ tracker.on
    /\ Len(tracker.log) < MaxOps
    /\ LET r == verifyReservation(tracker.board, code)
       IN tracker' = [tracker EXCEPT
                        !.log = Append(@, [op |-> "verify", code |-> code,
                                           success |-> TRUE, status |-> "none",
                                           found |-> r.found,
                                           verificationFailed |-> r.verificationFailed])]
    /\ UNCHANGED <<isRunning, isChecking, intervalId, runResults, processingDeals,
                   config, credentials, amazonBuyer, fn, proc, ri, lg, sync, dm>>

TrackerNext ==
    \/ \E code \in Codes, r \in reserveDeal(BatchSize) : TrReserveDeal(code, r)
    \/ \E code \in Codes : TrUnreserveDeal(code)
    \/ \E code \in Codes : TrVerifyReservation(code)

----------------------------------------------------------------------------
\* DealManager.isDealActionable (src/unnamed/part_008) and the link finder of
\* Monitor.processDeal, as functions of a deal, the filters and the order
\* ledger

RetailerNames == {"Amazon", "Best Buy", "Walmart"}

Urls == {1, 2}

NoLink == 0

\* one entry of items[0].retailer_links[] or of items.items[]
Links == [retailer : RetailerNames, url : Urls]

LinkLists == UNION {[1..n -> Links] : n \in 0..MaxLinks}

\* the two shapes in which the API delivers the links of a deal
Shapes == {"retailer_links", "items"}

FnDeals ==
    [deal_code : {1}, retail_price : 0..MaxPrice, payout_price : 0..MaxPrice,
     is_reservation_closed : BOOLEAN, shape : Shapes, links : LinkLists]

FnConfigs ==
    [min_profit_margin_percent : {0, 50}, min_payout : {0, MaxPrice},
     only_open_deals : BOOLEAN, amazon_enabled : BOOLEAN, bestbuy_enabled : BOOLEAN]

\* the deal codes of the orders in the ledger
Ledgers == {{}, {1}, {2}}

\* l.retailer.toLowerCase()
ToLowerCase(name) ==
    CASE name = "Amazon"   -> "amazon"
      [] name = "Best Buy" -> "best buy"
      [] name = "Walmart"  -> "walmart"

\* r.includes('amazon'), r.includes('best buy')
Includes(r, needle) == r = needle

\* OrderManager.hasDeal(dealCode)
hasDeal(orders, dealCode) == \E o \in orders : o = dealCode

\* (profit / retail_price) * 100 < min, in floating point: a division by zero
\* gives Infinity, -Infinity or NaN, and only -Infinity is below min
MarginBelow(deal, min) ==
    LET profit == deal.payout_price - deal.retail_price IN
    IF deal.retail_price # 0
    THEN profit * 100 < min * deal.retail_price
    ELSE profit < 0

\* deal.items && deal.items[0] && deal.items[0].retailer_links
Structure1(deal) == deal.shape = "retailer_links"

\* deal.items && deal.items.items && Array.isArray(deal.items.items)
Structure2(deal) == deal.shape = "items"

\* the callback of retailer_links.some(...) and of items.items.some(...)
LinkActionable(l, cfg) ==
    LET r == ToLowerCase(l.retailer) IN
    \/ Includes(r, "amazon") /\ cfg.amazon_enabled
    \/ Includes(r, "best buy") /\ cfg.bestbuy_enabled

hasActionableRetailerFirstShapeOnly(deal, cfg) ==
    Structure1(deal) /\ \E i \in DOMAIN deal.links : LinkActionable(deal.links[i], cfg)

\* lines 221-250: Structure 1, then Structure 2 when Structure 1 found nothing
hasActionableRetailer(deal, cfg) ==
    LET first == Structure1(deal)
                 /\ \E i \in DOMAIN deal.links : LinkActionable(deal.links[i], cfg)
    IN  IF first THEN TRUE
        ELSE Structure2(deal)
             /\ \E i \in DOMAIN deal.links : LinkActionable(deal.links[i], cfg)

isDealActionableNoLedger(deal, cfg, orders) ==
    IF MarginBelow(deal, cfg.min_profit_margin_percent) THEN FALSE
    ELSE IF deal.payout_price < cfg.min_payout THEN FALSE
    ELSE IF ~hasActionableRetailer(deal, cfg) THEN FALSE
    ELSE IF cfg.only_open_deals /\ deal.is_reservation_closed THEN FALSE
    ELSE TRUE

\* isDealActionable(deal), its returns in the order of the code
isDealActionable(deal, cfg, orders) ==
    IF hasDeal(orders, deal.deal_code) THEN FALSE
    ELSE IF MarginBelow(deal, cfg.min_profit_margin_percent) THEN FALSE
    ELSE IF deal.payout_price < cfg.min_payout THEN FALSE
    ELSE IF ~hasActionableRetailer(deal, cfg) THEN FALSE
    ELSE IF cfg.only_open_deals /\ deal.is_reservation_closed THEN FALSE
    ELSE TRUE

\* links.find(l => l.retailer && l.retailer.toLowerCase().includes(needle)),
\* then .url of what was found
FindUrl(links, needle) ==
    LET hits == {i \in DOMAIN links : Includes(ToLowerCase(links[i].retailer), needle)}
    IN  IF hits = {} THEN NoLink
        ELSE links[CHOOSE i \in hits : \A j \in hits : i <= j].url

\* processDeal lines 1402-1425: the link of one retailer
ExtractLink(deal, needle) ==
    LET first == IF Structure1(deal) THEN FindUrl(deal.links, needle) ELSE NoLink
    IN  IF Structure2(deal) /\ first = NoLink
        THEN FindUrl(deal.links, needle)
        ELSE first

FnOff ==
    [pc |-> "off", deal |-> 0, cfg |-> 0, orders |-> {}, result |-> FALSE,
     amazonLink |-> NoLink, bestbuyLink |-> NoLink]

\* const actionable = this.isDealActionable(deal)
FnIsDealActionable ==
    /\ fn.pc = "ready"
    /\ fn' = [fn EXCEPT !.pc = "filtered",
                        !.result = isDealActionable(fn.deal, fn.cfg, fn.orders)]
    /\ UNCHANGED <<isRunning, isChecking, intervalId, runResults, processingDeals,
                   config, credentials, amazonBuyer, tracker, proc, ri, lg, sync, dm>>

\* the link finder at the head of processDeal
FnExtractLinks ==
    /\ fn.pc = "filtered"
    /\ fn' = [fn EXCEPT !.pc = "done",
                        !.amazonLink = ExtractLink(fn.deal, "amazon"),
                        !.bestbuyLink = ExtractLink(fn.deal, "best buy")]
    /\ UNCHANGED <<isRunning, isChecking, intervalId, runResults, processingDeals,
                   config, credentials, amazonBuyer, tracker, proc, ri, lg, sync, dm>>

FnNext ==
    \/ FnIsDealActionable
    \/ FnExtractLinks

----------------------------------------------------------------------------
\* this.loginFailures before its first assignment (the constructor does not set
\* it): undefined, and NaN once incremented
NotANumber == 0 - 1

LgIdle ==
    [pc |-> "idle", deals |-> 0,
     limit |-> 0, reserved |-> 0, buy |-> "none",
     unreserveCalls |-> 0, logged |-> <<>>, marked |-> "none",
     loginFailures |-> NotANumber, polling |-> TRUE,
     \* what validateProduct and login answered for this deal
     validation |-> "none", login |-> "none",
     \* fatal login results since the last successful login; stopPolling called
     fatalRun |-> 0, stopped |-> FALSE,
     \* loginFailures and polling when this deal's processing began
     atStart |-> [loginFailures |-> NotANumber, polling |-> TRUE]]

\* the legacy Monitor is not the one in use
LgOff == [LgIdle EXCEPT !.pc = "off"]

\* The Monitor after construction, and the steps of its invocations

MonInit ==
    /\ isRunning = FALSE
    /\ isChecking = FALSE
    /\ intervalId = FALSE
    /\ runResults = FALSE
    /\ processingDeals = {}
    /\ proc = [p \in Procs |-> Idle]

Init ==
    /\ MonInit
    /\ config \in Configs
    /\ credentials \in BOOLEAN
    /\ amazonBuyer = [price_tolerance |-> config.price_tolerance]
    /\ tracker = TrOff
    /\ fn = FnOff
    /\ ri = RiIdle
    /\ lg = LgOff
    /\ sync = SyOff
    /\ dm = DmOff

\* the steps of a processDeal invocation
ProcessDealStep(p) ==
    \/ \E o \in {"valid", "invalid", "throw"} : ValidateAmazon(p, o)
    \/ \E o \in BestBuyOutcomes : ValidateBestbuy(p, o)
    \/ \E o \in LoginResults \cup {"throw"} : BoardLogin(p, o)
    \/ \E r \in ReserveResults(BatchSize, proc[p].maxTotal) : Reserve(p, r)
    \/ ReserveThrows(p)
    \/ \E o \in BuyOutcomes : BuyAmazon(p, o)

\* the steps of a checkDeals invocation, and of a retryDeal invocation
CheckStep(p) ==
    \/ Start(p)
    \/ TimerTick(p)
    \/ RunOnce(p)
    \/ \E o \in {"logged_in", "not_logged_in", "throw"} : CheckLoginStatus(p, o)
    \/ \E a \in ApiResponses : FetchAndFilterDeals(p, a)
    \/ ProcessDealStep(p)
    \/ ProcessDealReturns(p)
    \/ \E o \in {"returns", "throw"} : SendSummaryEmail(p, o)
    \/ \E o \in {"returns", "throw"} : CloseBrowsers(p, o)

RetryStep(p) ==
    \/ \E d \in Deals : RetryDeal(p, d)
    \/ \E a \in ApiResponses : RetryGetDeals(p, a)
    \/ RetryGetDealsThrows(p)
    \/ ProcessDealStep(p)
    \/ ProcessDealReturns(p)

\* Specification Spec: the polling cycle, one checkDeals invocation at a time
Next == CheckStep(1)

Spec == Init /\ [][Next]_vars

----------------------------------------------------------------------------
\* Specification ReserveSpec

RiInit ==
    /\ MonInit
    /\ config = [amazon_enabled |-> TRUE, amazon_max_per_order |-> 0,
                 bestbuy_enabled |-> FALSE, bestbuy_max_per_order |-> 0,
                 price_tolerance |-> 0]
    /\ credentials = TRUE
    /\ amazonBuyer = [price_tolerance |-> config.price_tolerance]
    /\ tracker = TrOff
    /\ fn = FnOff
    /\ lg = LgOff
    /\ sync = SyOff
    /\ dm = DmOff
    /\ \E b \in 1..MaxBatch, m \in 1..MaxMaxTotal :
          ri = [RiIdle EXCEPT !.s = RiStart(b, m)]

ReserveSpec == RiInit /\ [][RiNext]_vars

----------------------------------------------------------------------------
\* Specification OverlapSpec: two checkDeals invocations (timer tick, manual
\* check) beside each other

OverlapNext ==
    \/ CheckStep(1)
    \/ CheckStep(2)

\* both retailers at their default max_per_order, no price tolerance
DefaultLimitsInit ==
    /\ Init
    /\ config.amazon_max_per_order = 0
    /\ config.bestbuy_max_per_order = 0
    /\ config.price_tolerance = 0

OverlapSpec == DefaultLimitsInit /\ [][OverlapNext]_vars

----------------------------------------------------------------------------
\* Specification RetrySpec: a checkDeals invocation and a retryDeal invocation
\* (POST /api/monitor/retry) beside each other

RetryNext ==
    \/ CheckStep(1)
    \/ RetryStep(3)

\* both retailers enabled at their default limits, board credentials set
BothEnabledInit ==
    /\ DefaultLimitsInit
    /\ config.amazon_enabled
    /\ config.bestbuy_enabled
    /\ credentials

RetrySpec == BothEnabledInit /\ [][RetryNext]_vars

\* Specification RetryAloneSpec: retryDeal invocations of a started Monitor
\* whose cycle is not in progress
StartedInit ==
    /\ isRunning = TRUE
    /\ isChecking = FALSE
    /\ intervalId = TRUE
    /\ runResults = FALSE
    /\ processingDeals = {}
    /\ proc = [p \in Procs |-> Idle]
    /\ config \in Configs
    /\ credentials \in BOOLEAN
    /\ amazonBuyer = [price_tolerance |-> config.price_tolerance]
    /\ tracker = TrOff
    /\ fn = FnOff
    /\ ri = RiIdle
    /\ lg = LgOff
    /\ sync = SyOff
    /\ dm = DmOff

RetryAloneSpec == StartedInit /\ [][RetryStep(3)]_vars

----------------------------------------------------------------------------
\* Specification ConfigSpec: the polling cycle, and the dashboard writing
\* config.json between two deals of a cycle

\* app.post('/api/config'): the merged config is written to config.json
PostConfig(p, newConfig) ==
    /\ proc[p].pc = "pdDone"
    /\ Len(proc[p].queue) > 1
    /\ newConfig # config
    /\ config' = newConfig
    /\ UNCHANGED <<isRunning, isChecking, intervalId, runResults, processingDeals,
                   credentials, amazonBuyer, tracker, fn, proc, ri, lg, sync, dm>>

ConfigNext ==
    \/ CheckStep(1)
    \/ \E c \in Configs : PostConfig(1, c)

ConfigSpec == Init /\ [][ConfigNext]_vars

----------------------------------------------------------------------------
\* The legacy Amazon-only Monitor (src/unnamed/part_004): processAmazonDeal,
\* cut at its awaits.  lg holds the locals of the invocation and, until the
\* next one begins, what the last one did.

\* logger.logDeal(deal, status, ...)
LgLogDeal(l, status) == [l EXCEPT !.logged = Append(@, status)]

\* dealManager.markAsProcessed / markAsFailed, and the return
LgMark(l, how) == [l EXCEPT !.marked = how, !.pc = "idle"]

\* the catch block of processAmazonDeal (lines 342-346)
LgCatch(l) == LgMark(LgLogDeal(l, "error"), "failed")

\* processAmazonDeal is entered for the next deal with an Amazon link
LgProcessAmazonDeal ==
    /\ lg.pc = "idle"
    /\ lg.deals < MaxLegacyDeals
    /\ lg' = [LgIdle EXCEPT !.pc = "validate", !.deals = lg.deals + 1,
                            !.loginFailures = lg.loginFailures,
                            !.polling = lg.polling,
                            !.fatalRun = lg.fatalRun,
                            !.stopped = lg.stopped,
                            !.atStart = [loginFailures |-> lg.loginFailures,
                                         polling |-> lg.polling]]
    /\ UNCHANGED <<isRunning, isChecking, intervalId, runResults, processingDeals,
                   config, credentials, amazonBuyer, tracker, fn, proc, ri, sync, dm>>

\* lines 203-234 and 289-293: validateProduct returns or throws; the
\* credentials of the environment are read
LgValidate(outcome) ==
    /\ lg.pc = "validate"
    /\ lg' = LET l0 == [lg EXCEPT !.validation = outcome]
             IN CASE outcome = "valid" ->
                       IF credentials THEN [l0 EXCEPT !.pc = "login"]
                       ELSE [LgLogDeal(l0, "no_credentials") EXCEPT !.pc = "idle"]
                  [] outcome = "throw" -> LgCatch(l0)
                  [] OTHER -> LgMark(LgLogDeal(l0, outcome), "processed")
    /\ UNCHANGED <<isRunning, isChecking, intervalId, runResults, processingDeals,
                   config, credentials, amazonBuyer, tracker, fn, proc, ri, sync, dm>>

\* the sum loginFailures++ leaves behind
LgIncrement(n) == IF n = NotANumber THEN NotANumber ELSE n + 1

\* a login step that counts a non-fatal failure like a fatal one
LgLoginCountsNonFatal(outcome) ==
    /\ lg.pc = "login"
    /\ lg' = LET l0 == [lg EXCEPT !.login = outcome]
             IN CASE outcome = "success" ->
                       [l0 EXCEPT !.loginFailures = 0, !.fatalRun = 0, !.pc = "scrape"]
                  [] outcome \in {"fatal", "non_fatal"} ->
                       LET l1 == [l0 EXCEPT !.loginFailures = LgIncrement(@),
                                            !.fatalRun = @ + 1]
                       IN IF l1.loginFailures >= 2
                          THEN [l1 EXCEPT !.polling = FALSE, !.stopped = TRUE,
                                          !.pc = "idle"]
                          ELSE [LgLogDeal(l1, "login_failed") EXCEPT !.pc = "idle"]
                  [] OTHER -> LgCatch(l0)
    /\ UNCHANGED <<isRunning, isChecking, intervalId, runResults, processingDeals,
                   config, credentials, amazonBuyer, tracker, fn, proc, ri, sync, dm>>

\* lines 236-244 and 268-288: bfmrWeb.login returns or throws
LgLogin(outcome) ==
    /\ lg.pc = "login"
    /\ lg' = LET l0 == [lg EXCEPT !.login = outcome]
             IN CASE outcome = "success" ->
                       [l0 EXCEPT !.loginFailures = 0, !.fatalRun = 0, !.pc = "scrape"]
                  [] outcome = "fatal" ->
                       LET l1 == [l0 EXCEPT !.loginFailures = LgIncrement(@),
                                            !.fatalRun = @ + 1]
                       IN IF l1.loginFailures >= 2
                          THEN [l1 EXCEPT !.polling = FALSE, !.stopped = TRUE,
                                          !.pc = "idle"]
                          ELSE [LgLogDeal(l1, "login_failed") EXCEPT !.pc = "idle"]
                  [] outcome = "non_fatal" ->
                       [LgLogDeal(l0, "login_error") EXCEPT !.pc = "idle"]
                  [] OTHER -> LgCatch(l0)
    /\ UNCHANGED <<isRunning, isChecking, intervalId, runResults, processingDeals,
                   config, credentials, amazonBuyer, tracker, fn, proc, ri, sync, dm>>

\* lines 244-249 and 263-267: scrapeDealPage returns bfmrData or throws
LgScrape(limit, throws) ==
    /\ lg.pc = "scrape"
    /\ lg' = IF throws THEN LgCatch(lg)
             ELSE IF limit # 0 THEN [lg EXCEPT !.limit = limit, !.pc = "reserve"]
             ELSE [LgLogDeal(lg, "no_limit") EXCEPT !.pc = "idle"]
    /\ UNCHANGED <<isRunning, isChecking, intervalId, runResults, processingDeals,
                   config, credentials, amazonBuyer, tracker, fn, proc, ri, sync, dm>>

\* a reserve step that goes on to the cart with nothing reserved
LgReserveIgnoresZero(reserveResult) ==
    /\ lg.pc = "reserve"
    /\ lg' = [lg EXCEPT !.reserved = reserveResult.totalReserved,
                        !.limit = reserveResult.totalReserved,
                        !.pc = "buy"]
    /\ UNCHANGED <<isRunning, isChecking, intervalId, runResults, processingDeals,
                   config, credentials, amazonBuyer, tracker, fn, proc, ri, sync, dm>>

\* lines 249-262: reserveIncrementally(deal.deal_code, 2) returns
LgReserve(reserveResult) ==
    /\ lg.pc = "reserve"
    /\ lg' = IF reserveResult.success /\ reserveResult.totalReserved > 0
             THEN [lg EXCEPT !.reserved = reserveResult.totalReserved,
                             !.limit = reserveResult.totalReserved,
                             !.pc = "buy"]
             ELSE IF reserveResult.totalReserved = 0
             THEN [LgLogDeal(lg, "reservation_failed") EXCEPT !.pc = "idle"]
             ELSE [lg EXCEPT !.reserved = reserveResult.totalReserved, !.pc = "buy"]
    /\ UNCHANGED <<isRunning, isChecking, intervalId, runResults, processingDeals,
                   config, credentials, amazonBuyer, tracker, fn, proc, ri, sync, dm>>

\* a reserveDeal of the loop lets an exception escape, after `units` units
\* were reserved by the calls before it
LgReserveThrows(units) ==
    /\ lg.pc = "reserve"
    /\ lg' = LgCatch([lg EXCEPT !.reserved = units])
    /\ UNCHANGED <<isRunning, isChecking, intervalId, runResults, processingDeals,
                   config, credentials, amazonBuyer, tracker, fn, proc, ri, sync, dm>>

\* what buyItem can answer (src/src/buyer/amazon.js, 340-605)
BuyStatuses ==
    {"added_to_cart", "price_mismatch", "out_of_stock", "used_or_renewed",
     "verification_failed", "error"}

\* lines 297-340: buyItem returns or throws
LgBuyItem(status, throws) ==
    /\ lg.pc = "buy"
    /\ lg' = IF throws THEN LgCatch([lg EXCEPT !.buy = "throw"])
             ELSE LET l1 == [lg EXCEPT !.buy = status]
                  IN CASE status = "added_to_cart" ->
                            LgMark(LgLogDeal(l1, "added_to_cart"), "processed")
                       [] status \in {"price_mismatch", "out_of_stock", "used_or_renewed"} ->
                            [LgLogDeal(l1, status) EXCEPT !.pc = "unreserve"]
                       [] status = "verification_failed" ->
                            LgMark(LgLogDeal(l1, "verification_failed"), "failed")
                       [] OTHER ->
                            LgMark(LgLogDeal(l1, "failed"), "failed")
    /\ UNCHANGED <<isRunning, isChecking, intervalId, runResults, processingDeals,
                   config, credentials, amazonBuyer, tracker, fn, proc, ri, sync, dm>>

\* lines 314-315, 321-322, 328-329: await bfmrWeb.unreserveDeal(deal.deal_code)
\* returns (it catches its own errors), then markAsProcessed
LgUnreserve ==
    /\ lg.pc = "unreserve"
    /\ lg' = LgMark([lg EXCEPT !.unreserveCalls = @ + 1], "processed")
    /\ UNCHANGED <<isRunning, isChecking, intervalId, runResults, processingDeals,
                   config, credentials, amazonBuyer, tracker, fn, proc, ri, sync, dm>>

LegacyNext ==
    \/ LgProcessAmazonDeal
    \/ \E o \in {"valid", "price_mismatch", "out_of_stock", "used_or_renewed",
                 "price_detection_failed", "validation_failed", "throw"} :
            LgValidate(o)
    \/ \E o \in {"success", "fatal", "non_fatal", "throw"} : LgLogin(o)
    \/ \E limit \in 0..1, throws \in BOOLEAN : LgScrape(limit, throws)
    \/ \E r \in ReserveResults(BatchSize, 0) : LgReserve(r)
    \/ \E units \in {0, BatchSize} : LgReserveThrows(units)
    \/ \E status \in BuyStatuses, throws \in BOOLEAN : LgBuyItem(status, throws)
    \/ LgUnreserve

LegacyInit ==
    /\ MonInit
    /\ config = [amazon_enabled |-> TRUE, amazon_max_per_order |-> 0,
                 bestbuy_enabled |-> FALSE, bestbuy_max_per_order |-> 0,
                 price_tolerance |-> 0]
    /\ credentials \in BOOLEAN
    /\ amazonBuyer = [price_tolerance |-> config.price_tolerance]
    /\ tracker = TrOff
    /\ fn = FnOff
    /\ ri = RiIdle
    /\ lg = LgIdle
    /\ sync = SyOff
    /\ dm = DmOff

LegacySpec == LegacyInit /\ [][LegacyNext]_vars

\* Specification EitherMonitorSpec: the Monitor in use is the multi-retailer
\* one or the legacy one
EitherNext ==
    \/ lg.pc = "off" /\ Next
    \/ lg.pc # "off" /\ LegacyNext

EitherMonitorSpec == (Init \/ LegacyInit) /\ [][EitherNext]_vars

\* Specification FilterSpec: isDealActionable and the link finder applied to
\* one deal
FilterInit ==
    /\ MonInit
    /\ config = [amazon_enabled |-> TRUE, amazon_max_per_order |-> 0,
                 bestbuy_enabled |-> FALSE, bestbuy_max_per_order |-> 0,
                 price_tolerance |-> 0]
    /\ credentials = TRUE
    /\ amazonBuyer = [price_tolerance |-> config.price_tolerance]
    /\ tracker = TrOff
    /\ ri = RiIdle
    /\ lg = LgOff
    /\ sync = SyOff
    /\ dm = DmOff
    /\ \E deal \in FnDeals, cfg \in FnConfigs, orders \in Ledgers :
          fn = [FnOff EXCEPT !.pc = "ready", !.deal = deal, !.cfg = cfg,
                             !.orders = orders]

FilterSpec == FilterInit /\ [][FnNext]_vars

\* Specification TrackerSpec: reserveDeal, unreserveDeal and verifyReservation
\* called in any order
TrackerInit ==
    /\ MonInit
    /\ config = [amazon_enabled |-> TRUE, amazon_max_per_order |-> 0,
                 bestbuy_enabled |-> FALSE, bestbuy_max_per_order |-> 0,
                 price_tolerance |-> 0]
    /\ credentials = TRUE
    /\ amazonBuyer = [price_tolerance |-> config.price_tolerance]
    /\ fn = FnOff
    /\ ri = RiIdle
    /\ lg = LgOff
    /\ sync = SyOff
    /\ dm = DmOff
    /\ tracker = [TrOff EXCEPT !.on = TRUE]

TrackerSpec == TrackerInit /\ [][TrackerNext]_vars

----------------------------------------------------------------------------
\* Properties of reserveIncrementally (ReserveSpec)

\* C1: reserveIncrementally(dealCode, batchSize, maxTotal) never returns a
\* totalReserved above maxTotal, and issues no reserve call once totalReserved
\* has reached maxTotal.
C1_NeverExceedsMaxTotal ==
    /\ ri.pc = "done" => ri.ret.totalReserved <= ri.s.maxTotal
    /\ ~ri.late

\* with maxTotal = 3 and batchSize = 2 the call has returned more than 3
C1_Overshoot ==
    /\ ri.pc = "done"
    /\ ri.s.batchSize = 2
    /\ ri.s.maxTotal = 3
    /\ ri.ret.totalReserved > 3
    /\ ri.late

\* C2: with batchSize = 2 and maxTotal = 6, over a reserve operation that
\* succeeds three times and then answers limit_reached, the call returns
\* success, totalReserved 6 and attempts 3, and the fourth reserve call is
\* never issued.
C2_ThreeSuccessesThenLimit ==
    (/\ ri.s.batchSize = 2
     /\ ri.s.maxTotal = 6
     /\ ri.pc = "done"
     /\ Len(ri.calls) >= 3
     /\ \A i \in 1..Len(ri.calls) :
           ri.calls[i] = (IF i <= 3 THEN "reserved" ELSE "limit_reached"))
    => /\ ri.ret.success
       /\ ri.ret.totalReserved = 6
       /\ ri.ret.attempts = 3
       /\ Len(ri.calls) = 3

\* the run of C2 has ended, its fourth call answered limit_reached
C2_FourthCallIssued ==
    /\ ri.s.batchSize = 2
    /\ ri.s.maxTotal = 6
    /\ ri.pc = "done"
    /\ ri.calls = <<"reserved", "reserved", "reserved", "limit_reached">>
    /\ ri.ret.attempts = 4

----------------------------------------------------------------------------
\* Properties of processDeal and checkDeals (Spec)

\* C3: in processDeal, when no enabled retailer passed validation, no
\* reservation call is made on the board for the deal and no cart-add or
\* manual-add outcome is recorded.
C3_NoValidRetailerNoReserve ==
    \A p \in Procs :
        (proc[p].pc \in InProcessDeal \cup {"pdDone"}
         /\ Len(proc[p].validRetailers) = 0)
        => /\ proc[p].pc # "reserve"
           /\ ~proc[p].reserved
           /\ proc[p].recs = NoCount
           /\ proc[p].acted = {}

\* processDeal has ended for a deal whose Amazon validation failed, nothing
\* validated, the board credentials present
C3_NothingValidated ==
    \E p \in Procs :
        /\ proc[p].pc = "pdDone"
        /\ proc[p].amazonVal = "invalid"
        /\ Len(proc[p].validRetailers) = 0
        /\ credentials

\* C6: an error raised while one deal is processed does not abort the cycle:
\* when checkDeals reaches its cleanup, processDeal has been invoked for every
\* deal fetchAndFilterDeals returned.
C6_EveryFetchedDealStarted ==
    \A p \in CheckProcs :
        proc[p].pc \in InCleanup => proc[p].started = SeqToSet(proc[p].fetched)

\* a cycle is in its cleanup after processDeal threw, a fetched deal never
\* started
C6_LaterDealSkipped ==
    \E p \in CheckProcs :
        /\ proc[p].pc \in InCleanup
        /\ proc[p].threw
        /\ proc[p].started # {}
        /\ proc[p].started # SeqToSet(proc[p].fetched)

\* C7: for every retailer processDeal acted upon exactly one outcome record
\* is written, a cart-add that fails or throws included; a retailer not acted
\* upon gets none.
C7_OneRecordPerActedRetailer ==
    \A p \in Procs :
        proc[p].pc = "pdDone"
        => \A r \in Retailers :
              proc[p].recs[r] = (IF r \in proc[p].acted THEN 1 ELSE 0)

\* processDeal has ended, the Amazon cart-add attempted, no record of it
C7_ActedWithoutRecord ==
    \E p \in Procs :
        /\ proc[p].pc = "pdDone"
        /\ "amazon" \in proc[p].acted
        /\ proc[p].recs["amazon"] = 0

\* C8: when Amazon's validation fails and Best Buy's succeeds, and units are
\* reserved, exactly one outcome is recorded for bestbuy and none for amazon;
\* and the maxTotal handed to reserveIncrementally is the sum of the limits of
\* the validated retailers only.
C8_MaxTotalFromValidatedOnly ==
    \A p \in Procs :
        LET l == proc[p]
            vr == l.validRetailers
            sum == IF Len(vr) = 0 THEN 0
                   ELSE IF Len(vr) = 1 THEN vr[1].maxQty
                   ELSE vr[1].maxQty + vr[2].maxQty
        IN /\ (l.pc = "reserve" \/ l.reserved) => l.maxTotal = sum
           /\ (/\ l.pc = "pdDone"
               /\ l.amazonVal = "invalid"
               /\ Len(vr) = 1 /\ vr[1].name = "bestbuy"
               /\ l.totalReserved >= 1)
              => /\ l.recs["bestbuy"] = 1
                 /\ l.recs["amazon"] = 0
                 /\ l.maxTotal = l.bestbuyMaxQty

\* processDeal has ended with Amazon rejected, Best Buy validated, units
\* reserved
C8_OnlyBestBuyValidated ==
    \E p \in Procs :
        /\ proc[p].pc = "pdDone"
        /\ proc[p].amazonVal = "invalid"
        /\ Len(proc[p].validRetailers) = 1
        /\ proc[p].totalReserved >= 1
        /\ proc[p].recs["bestbuy"] = 1

\* C9: the reserved units go to the validated retailers in validation order,
\* each receiving min(remaining, its maxPerOrder); what is allocated plus what
\* is left over is totalReserved, and no retailer receives more than its
\* maxPerOrder.
C9_AllocationInOrder ==
    \A p \in Procs :
        LET l == proc[p]
            vr == l.validRetailers
            first == Min(l.totalReserved, vr[1].maxQty)
        IN /\ (l.pc \in {"buyAmazon", "pdDone"} /\ l.reserved)
              => /\ l.alloc["amazon"] + l.alloc["bestbuy"] + l.remaining
                        = l.totalReserved
                 /\ l.remaining >= 0
                 /\ \A i \in 1..Len(vr) : l.alloc[vr[i].name] <= vr[i].maxQty
           /\ (l.pc = "pdDone" /\ l.reserved /\ l.totalReserved > 0)
              => /\ l.alloc[vr[1].name] = first
                 /\ Len(vr) = 2
                    => l.alloc[vr[2].name] =
                           Min(l.totalReserved - first, vr[2].maxQty)

\* two retailers validated, both served at their limit, units left over
C9_BothServed ==
    \E p \in Procs :
        /\ proc[p].pc = "pdDone"
        /\ Len(proc[p].validRetailers) = 2
        /\ proc[p].alloc["amazon"] = proc[p].amazonMaxQty
        /\ proc[p].alloc["bestbuy"] = proc[p].bestbuyMaxQty
        /\ proc[p].remaining > 0

----------------------------------------------------------------------------
\* Properties of overlapping invocations (OverlapSpec, RetrySpec)

\* C4: at most one checkDeals invocation is past the isChecking guard at any
\* time.
C4_OneCheckPastGuard ==
    Cardinality({p \in CheckProcs : proc[p].pc # "idle"}) <= 1

\* one invocation is in its cleanup while another is past the guard
C4_SecondPassesDuringCleanup ==
    \E p, q \in CheckProcs :
        /\ p # q
        /\ proc[p].pc \in InCleanup
        /\ proc[q].pc \in {"checkLogin", "fetch"} \cup InProcessDeal

\* C5: no deal is processed by two processDeal invocations at the same time.
C5_NoDealProcessedTwice ==
    \A p, q \in Procs :
        (p # q /\ proc[p].pc \in InProcessDeal /\ proc[q].pc \in InProcessDeal)
        => proc[p].deal # proc[q].deal

\* retryDeal runs processDeal for a deal that is in the in-flight set and in
\* a cycle's processDeal
C5_RetryBesideCycle ==
    \E p \in CheckProcs, q \in RetryProcs :
        /\ proc[p].pc \in InProcessDeal
        /\ proc[q].pc \in InProcessDeal
        /\ proc[p].deal = proc[q].deal
        /\ proc[q].deal \in processingDeals

----------------------------------------------------------------------------
\* Properties of the legacy processAmazonDeal (LegacySpec)

\* C10: whenever units were reserved for a deal and processing ended without
\* a successful cart addition, unreserveDeal was called before the outcome
\* was marked.
C10_UnreserveBeforeMark ==
    (/\ lg.pc = "idle"
     /\ lg.reserved > 0
     /\ lg.marked # "none"
     /\ lg.buy # "added_to_cart")
    => lg.unreserveCalls >= 1

\* units reserved, the deal marked failed, unreserveDeal never called
C10_ReservationKept ==
    /\ lg.pc = "idle"
    /\ lg.reserved > 0
    /\ lg.marked = "failed"
    /\ lg.unreserveCalls = 0

\* C11: in the legacy Monitor, when board login has answered a fatal failure
\* twice with no successful login in between, polling is paused, also when
\* no login has ever succeeded since construction.
C11_SecondFatalPausesPolling ==
    lg.fatalRun >= 2 => (lg.stopped /\ ~lg.polling)

\* two fatal login failures in a row on a fresh Monitor, polling still on
C11_StillPollingAfterTwoFatal ==
    /\ lg.fatalRun = 2
    /\ lg.login = "fatal"
    /\ lg.loginFailures = NotANumber
    /\ ~lg.stopped
    /\ lg.polling

\* C12: a non-fatal board login failure leaves the consecutive-failure
\* counter unchanged, does not stop polling, and ends the processing of that
\* deal only, with no reserve call and no cart-add; the next deal can be
\* processed.
C12_NonFatalSkipsDealOnly ==
    lg.login = "non_fatal"
    => /\ lg.pc = "idle"
       /\ lg.loginFailures = lg.atStart.loginFailures
       /\ lg.polling = lg.atStart.polling
       /\ lg.reserved = 0
       /\ lg.buy = "none"
       /\ lg.logged = <<"login_error">>
       /\ lg.deals < MaxLegacyDeals => ENABLED LgProcessAmazonDeal

\* a non-fatal login failure after an earlier successful login, the counter
\* at 0 and polling on
C12_NonFatalAfterSuccess ==
    /\ lg.login = "non_fatal"
    /\ lg.loginFailures = 0
    /\ lg.polling
    /\ lg.deals < MaxLegacyDeals

\* C13: every checkDeals invocation that passed the guard ends, whatever its
\* outcome, with a close attempted on each of the Amazon, Best Buy and board
\* sessions: it ends in the step that attempts the last of the three closes.
C13_EndsAfterThreeCloses ==
    [][\A p \in CheckProcs :
          (proc[p].pc # "idle" /\ proc'[p].pc = "idle")
          => proc[p].pc = "closeBfmr"]_vars

\* a cycle that processed deals is at the close of the Amazon session, the
\* first of the three
C13_AtFirstClose ==
    \E p \in CheckProcs :
        /\ proc[p].pc = "closeAmazon"
        /\ proc[p].started # {}

\* C14: the success and totalReserved that reserveIncrementally returns
\* depend only on the results of the reserve calls: whatever
\* verifyReservation answers, totalReserved is the count accumulated by the
\* loop and success is totalReserved > 0.
C14_VerificationNeverChangesResult ==
    ri.pc = "done"
    => LET granted == Cardinality({i \in 1..Len(ri.calls) : ri.calls[i] = "reserved"})
       IN /\ ri.ret.totalReserved = granted * ri.s.batchSize
          /\ ri.ret.totalReserved = ri.s.totalReserved
          /\ ri.ret.success = (ri.ret.totalReserved > 0)

\* the call has returned after the tracker showed another quantity than the
\* loop had counted
C14_MismatchReturned ==
    /\ ri.pc = "done"
    /\ ri.ret.verificationMismatch
    /\ ri.ret.success
    /\ ri.ret.totalReserved = ri.s.totalReserved

\* C15: when the first reserve call fails with status closed, the result is
\* success false, totalReserved 0, attempts 1, and no second reserve call is
\* issued.
C15_ClosedAtFirstCall ==
    (Len(ri.calls) >= 1 /\ ri.calls[1] = "closed")
    => /\ ri.pc = "done"
       /\ Len(ri.calls) = 1
       /\ ~ri.ret.success
       /\ ri.ret.totalReserved = 0
       /\ ri.ret.attempts = 1
       /\ ~ri.stale

\* the first reserve call has been answered closed
C15_FirstCallClosed ==
    /\ ri.calls = <<"closed">>
    /\ ri.pc = "done"

\* C16: no cart-add and no manual-add record is made for a deal unless,
\* earlier in the same processing, the retailer's validation passed and
\* reserveIncrementally returned totalReserved > 0, in processDeal and in the
\* legacy processAmazonDeal alike.
C16_ValidateReserveCommit ==
    /\ \A p \in Procs :
          LET l == proc[p]
              validated(r) == \E i \in 1..Len(l.validRetailers) :
                                  l.validRetailers[i].name = r
          IN \A r \in Retailers :
                (\/ r \in l.acted
                 \/ l.recs[r] > 0
                 \/ (r = "amazon" /\ l.pc = "buyAmazon"))
                => /\ validated(r)
                   /\ r = "amazon" => l.amazonVal = "valid"
                   /\ l.reserved
                   /\ l.totalReserved > 0
    /\ (lg.pc \in {"buy", "unreserve"} \/ lg.buy # "none")
       => /\ lg.validation = "valid"
          /\ lg.login = "success"
          /\ lg.reserved > 0

\* the legacy path has put a deal in the cart
C16_LegacyCartAdd ==
    /\ lg.buy = "added_to_cart"
    /\ lg.validation = "valid"
    /\ lg.reserved > 0

----------------------------------------------------------------------------
\* Properties of isDealActionable and the link finder (FilterSpec)

\* some link on the deal, in whichever shape, names a retailer that is enabled
EnabledRetailerHasLink(deal, cfg) ==
    \E i \in DOMAIN deal.links :
        \/ deal.links[i].retailer = "Amazon" /\ cfg.amazon_enabled
        \/ deal.links[i].retailer = "Best Buy" /\ cfg.bestbuy_enabled

OtherShape(deal) ==
    [deal EXCEPT !.shape = IF @ = "retailer_links" THEN "items" ELSE "retailer_links"]

\* C18: for any list of retailer links, isDealActionable returns the same
\* result and processDeal resolves the same Amazon link whether the links
\* arrive as items[0].retailer_links[] or as items.items[].
C18_SameInEitherShape ==
    fn.pc = "done"
    => /\ fn.result = isDealActionable(OtherShape(fn.deal), fn.cfg, fn.orders)
       /\ fn.amazonLink = ExtractLink(OtherShape(fn.deal), "amazon")

\* an actionable deal in the fallback shape with two different Amazon links
C18_FallbackShapeResolved ==
    /\ fn.pc = "done"
    /\ fn.deal.shape = "items"
    /\ fn.result
    /\ Len(fn.deal.links) = 2
    /\ fn.deal.links[1].retailer = "Amazon"
    /\ fn.deal.links[2].retailer = "Amazon"
    /\ fn.deal.links[1].url # fn.deal.links[2].url
    /\ fn.amazonLink = fn.deal.links[1].url

----------------------------------------------------------------------------
\* Properties of the configuration in use (ConfigSpec)

\* C19: a config change written between two deals of a cycle is in effect for
\* the later deal: the enabled flags and max_per_order used by processDeal,
\* and the price tolerance used by validation, are the values of config.json
\* at the start of that deal's processing.
C19_LaterDealUsesCurrentConfig ==
    \A p \in CheckProcs :
        proc[p].pc \in InProcessDeal
        => /\ proc[p].amazonEnabled = config.amazon_enabled
           /\ proc[p].amazonMaxQty = AmazonMaxQty(config)
           /\ proc[p].bestbuyEnabled = config.bestbuy_enabled
           /\ proc[p].bestbuyMaxQty = BestbuyMaxQty(config)
           /\ proc[p].tolerance \in {NotRead, config.price_tolerance}

\* the second deal of a cycle passes Amazon validation after the price
\* tolerance in config.json was changed
C19_ValidatedAfterToleranceWrite ==
    /\ proc[1].pc \in InProcessDeal
    /\ Cardinality(proc[1].started) = 2
    /\ proc[1].amazonVal = "valid"
    /\ config.price_tolerance # amazonBuyer.price_tolerance

----------------------------------------------------------------------------
\* Properties of retryDeal (RetryAloneSpec)

\* C20: retryDeal only passes to processDeal a deal obtained from a getDeals
\* call made during that same invocation; if the requested deal code is absent
\* from the fresh list, processDeal is not called and the result is
\* success: false.
C20_RetryProcessesFreshDealOnly ==
    \A p \in RetryProcs :
        LET l == proc[p] IN
        /\ (l.pc \in InProcessDeal \cup {"pdDone"} \/ l.started # {})
           => /\ l.deal \in SeqToSet(l.fetched)
              /\ l.started = {l.deal}
        /\ (l.pc = "idle" /\ l.result \in {"not_found", "completed"})
           => /\ l.result = "not_found" <=> l.deal \notin SeqToSet(l.fetched)
              /\ l.result = "not_found" => l.started = {}

\* a retry was asked for a deal the fresh list does not hold, and came back
\* with success: false
C20_RetryOfVanishedDeal ==
    \E p \in RetryProcs :
        /\ proc[p].pc = "idle"
        /\ proc[p].result = "not_found"
        /\ proc[p].fetched # <<>>
        /\ proc[p].deal \notin SeqToSet(proc[p].fetched)

----------------------------------------------------------------------------
\* Properties of retryDeal beside a cycle (RetrySpec)

\* C21: retryDeal clears the in-memory "already processing" mark of the deal:
\* while it replays processDeal the deal is not in processingDeals, and after
\* it has returned the deal is not in processingDeals either, so the next
\* cycle may pick it up.
C21_RetryClearsProcessingMark ==
    \A q \in RetryProcs :
        /\ proc[q].pc \in InProcessDeal => proc[q].deal \notin processingDeals
        /\ (proc[q].pc = "idle" /\ proc[q].result = "completed"
            /\ \A p \in CheckProcs : proc[p].pc = "idle")
           => proc[q].deal \notin processingDeals

\* retryDeal has looked the deal up and is inside processDeal while the deal
\* still carries the mark fetchAndFilterDeals gave it
C21_RetryOfMarkedDeal ==
    \E q \in RetryProcs :
        /\ proc[q].pc \in InProcessDeal
        /\ proc[q].started = {proc[q].deal}
        /\ proc[q].deal \in processingDeals

----------------------------------------------------------------------------
\* Properties of the running total of reserveIncrementally (ReserveSpec)

\* the reserve calls so far that returned success
SuccessfulCalls(calls) == Cardinality({i \in DOMAIN calls : calls[i] = "reserved"})

\* C24: within one reserveIncrementally attempt totalReserved never
\* decreases, and in every reachable state it is batchSize times the number
\* of successful reserve calls so far.
C24_TotalIsBatchesOfSuccesses ==
    [][/\ ri'.s.totalReserved >= ri.s.totalReserved
       /\ ri'.s.totalReserved = ri'.s.batchSize * SuccessfulCalls(ri'.calls)]_vars

\* two batches were reserved and a third call failed
C24_TwoBatchesThenFailure ==
    /\ Len(ri.calls) = 3
    /\ ri.calls[3] \notin {"reserved", "rejected"}
    /\ ri.s.totalReserved = 2 * ri.s.batchSize
    /\ ri.s.batchSize > 1

\* C27: every successful reserve call counted by reserveIncrementally
\* reserved exactly batchSize units on the board, so the returned
\* totalReserved equals the units submitted for reservation, also when
\* reserveDeal retried with a smaller limit read from an error message.
C27_TotalEqualsUnitsSubmitted ==
    ri.pc \in {"verify", "done"} => ri.s.totalReserved = ri.submitted

\* reserveIncrementally has returned a total above what its reserve calls
\* put on the board
C27_CountedMoreThanSubmitted ==
    /\ ri.pc = "done"
    /\ ri.ret.success
    /\ ri.submitted > 0
    /\ ri.ret.totalReserved > ri.submitted

\* C33: reserveIncrementally ends after at most 25 reserve calls whatever
\* the reserve calls answer, also when every one of them succeeds: attempts
\* never exceeds 25, totalReserved never exceeds 25 times batchSize, and
\* after the 25th call the loop is over.
C33_AtMostMaxAttemptsCalls ==
    /\ Len(ri.calls) <= MaxAttempts
    /\ ri.s.attempts = Len(ri.calls)
    /\ ri.s.totalReserved <= MaxAttempts * ri.s.batchSize
    /\ ri.s.attempts >= MaxAttempts
       => /\ ri.pc # "loop"
          /\ ~ri.s.continueReserving \/ ri.pc = "threw"

\* every one of 25 reserve calls succeeded and the loop has ended
C33_AllCallsGrantedLoopEnded ==
    /\ ri.s.attempts = MaxAttempts
    /\ \A i \in 1..Len(ri.calls) : ri.calls[i] = "reserved"
    /\ ri.s.totalReserved = MaxAttempts * ri.s.batchSize
    /\ ~ri.s.continueReserving
    /\ ri.pc = "verify"

\* C34: reserveIncrementally issues no reserve call after a reserve call
\* returned success false, whatever the status of the failure; the loop of
\* BfmrWeb and the loop of incremental-reserve-method.js both stop at the
\* first failure.
C34_NoCallAfterFailedCall ==
    /\ \A i \in 1..(Len(ri.calls) - 1) : ri.calls[i] = "reserved"
    /\ (Len(ri.calls) > 0 /\ ri.calls[Len(ri.calls)] # "reserved")
       => /\ ri.pc # "loop"
          /\ ~ri.s.continueReserving \/ ri.pc = "threw"
    /\ \A status \in ReserveStatuses \ {"reserved"} :
          LET result == ReserveDealResult(status)
          IN /\ ~LoopBodyMethod(ri.s, result).continueReserving
             /\ LoopBodyMethod(ri.s, result) = LoopBody(ri.s, result)

\* a reserve call failed with a status the loop has no branch for, after
\* an earlier call had succeeded, and the loop has ended
C34_EndedOnUnnamedStatus ==
    /\ Len(ri.calls) = 2
    /\ ri.calls[1] = "reserved"
    /\ ri.calls[2] = "failed"
    /\ ri.pc = "verify"

----------------------------------------------------------------------------
\* Properties of the tracker calls (TrackerSpec)

\* positions i < j < k of the log: a reserve of a code that succeeded, the
\* first unreserveDeal of that code after it, and a later verifyReservation
\* of that code with no new reservation of the code in between
RoundTrip(i, j, k) ==
    LET log == tracker.log IN
    /\ i < j /\ j < k
    /\ log[i].op = "reserve" /\ log[i].success
    /\ log[j].op = "unreserve" /\ log[j].code = log[i].code
    /\ log[k].op = "verify" /\ log[k].code = log[i].code
    /\ \A m \in (i + 1)..(j - 1) :
          ~(log[m].op = "unreserve" /\ log[m].code = log[i].code)
    /\ \A m \in (i + 1)..(k - 1) :
          ~(log[m].op = "reserve" /\ log[m].code = log[i].code)

ReserveDealReturns ==
    {i \in DOMAIN tracker.log :
        tracker.log[i].op = "reserve" /\ tracker.log[i].status # "rejected"}

\* C23 as written: every result of reserveDeal has a status in {reserved,
\* closed, limit_reached, error, unknown}, and success is true exactly when
\* the status is reserved.
C23_StatusOneOfFive ==
    \A i \in ReserveDealReturns :
        /\ tracker.log[i].status \in
              {"reserved", "closed", "limit_reached", "error", "unknown"}
        /\ tracker.log[i].success <=> tracker.log[i].status = "reserved"

\* C23, amended: every result of reserveDeal has a status in {reserved,
\* closed, limit_reached, failed, error, unknown}, and success is true exactly
\* when the status is reserved.
C23_StatusOneOfSix ==
    \A i \in ReserveDealReturns :
        /\ tracker.log[i].status \in
              {"reserved", "closed", "limit_reached", "failed", "error", "unknown"}
        /\ tracker.log[i].success <=> tracker.log[i].status = "reserved"

\* reserveDeal has returned status 'failed', and it has returned 'reserved'
C23_FailedReturned ==
    /\ \E i \in ReserveDealReturns : tracker.log[i].status = "failed"
    /\ \E i \in ReserveDealReturns : tracker.log[i].success

----------------------------------------------------------------------------
\* Properties of the in-flight set over a cycle (Spec)

\* C25: every deal id fetchAndFilterDeals adds to processingDeals is removed
\* again before the cycle ends, on every path, an exception thrown by
\* processDeal included: whenever no cycle is in progress the set is empty.
C25_InFlightSetEmptiedByCycleEnd ==
    (\A p \in CheckProcs : proc[p].pc \in InCleanup \cup {"idle"})
    => processingDeals = {}

\* processDeal threw, the cycle has ended, and the deal it threw for and a
\* deal it never started are still marked as in flight
C25_MarksLeftAfterThrow ==
    /\ proc[1].pc = "idle"
    /\ Cardinality(processingDeals) = 2
    /\ isRunning

\* C36: a checkDeals invocation that passed the guard releases isChecking
\* when its try block ends, by the end of the loop, by an early return or by
\* an exception in fetching or processing, so that the next trigger can run a
\* cycle; the flag is set only while an invocation is inside its try block.
C36_FlagReleasedWhenCycleEnds ==
    /\ [](isChecking => \E p \in CheckProcs : proc[p].pc \in InTry)
    /\ [][\A p \in CheckProcs :
             (proc[p].pc \in InTry /\ proc'[p].pc \notin InTry)
             => (~isChecking' /\ proc'[p].pc \in InCleanup)]_vars

\* a cycle ended by an exception of the reservation, the flag released
C36_FlagFreeAfterThrowInReserve ==
    \E p \in CheckProcs :
        /\ proc[p].pc \in InCleanup
        /\ proc[p].threwAt = "reserveCall"
        /\ ~isChecking

\* C37: in the legacy Amazon-only Monitor every path on which
\* processAmazonDeal ends (validation failed, reservation failed, no limit
\* found, login failed, fatal pause, credentials missing, every buyItem
\* result, exception) removes the deal's id from the in-flight set, by
\* markAsProcessed or markAsFailed.
C37_EveryEndingPathUnmarks ==
    (lg.pc = "idle" /\ lg.deals > 0) => lg.marked \in {"processed", "failed"}

\* processAmazonDeal has returned after a reservation that reserved nothing,
\* with neither markAsProcessed nor markAsFailed called
C37_ReturnedWithoutUnmark ==
    /\ lg.pc = "idle"
    /\ lg.deals > 0
    /\ lg.validation = "valid"
    /\ lg.login = "success"
    /\ lg.logged = <<"reservation_failed">>
    /\ lg.marked = "none"

----------------------------------------------------------------------------
\* Properties of the browser cleanup under overlap (OverlapSpec)

\* the pcs at which a close of a shared browser session is in flight
\* (lines 1384-1386)
Closing == {"closeAmazon", "closeBestbuy", "closeBfmr"}

\* the pcs between the isChecking guard and the finally block
GuardToCleanup == {"checkLogin", "fetch", "pdDone"} \cup InProcessDeal

\* C26: no browser session is being closed by one checkDeals invocation's
\* cleanup while another checkDeals invocation is between its guard and its
\* own cleanup.
C26_NoCloseUnderRunningCycle ==
    \A p, q \in CheckProcs :
        (p # q /\ proc[p].pc \in Closing) => proc[q].pc \notin GuardToCleanup

\* one invocation closes the board session while the other awaits the
\* reservation it started on that session
C26_BoardClosedUnderReservation ==
    \E p, q \in CheckProcs :
        /\ p # q
        /\ proc[p].pc = "closeBfmr"
        /\ proc[q].pc = "reserveCall"
        /\ isChecking

----------------------------------------------------------------------------
\* Properties of the board login of processDeal (Spec)

\* C28: when the board login before the reservation fails, fatally or not,
\* the deal is skipped: processDeal makes no reserve call for it and no
\* cart-add or manual-add.
C28_FailedLoginSkipsDeal ==
    \A p \in Procs :
        proc[p].login \in {"fatal", "non_fatal"}
        => /\ proc[p].pc \notin {"reserveCall", "buyAmazon"}
           /\ ~proc[p].reserved
           /\ proc[p].acted = {}

\* the login failed for a reason that is not the credentials and
\* reserveIncrementally has been called for the deal all the same
C28_ReserveCallAfterFailedLogin ==
    \E p \in Procs :
        /\ proc[p].login = "non_fatal"
        /\ proc[p].pc = "reserveCall"
        /\ proc[p].maxTotal > 0
        /\ proc[p].deal \in processingDeals

----------------------------------------------------------------------------
\* Properties of the rollback after a failed cart-add (Spec)

\* C29: when the Amazon cart-add made after the reservation reports
\* price_mismatch or out_of_stock, processDeal has called unreserveDeal for
\* the units allocated to Amazon.
C29_FailedCartAddUnreserves ==
    \A p \in Procs :
        proc[p].buyStatus \in {"price_mismatch", "out_of_stock"}
        => proc[p].unreserveCalls > 0

\* processDeal has returned after a cart-add that reported price_mismatch
\* for units it had reserved and allocated to Amazon, with no unreserve call
C29_MismatchLeavesUnitsReserved ==
    \E p \in Procs :
        /\ proc[p].pc = "pdDone"
        /\ proc[p].buyStatus = "price_mismatch"
        /\ proc[p].totalReserved > 0
        /\ proc[p].alloc["amazon"] > 0
        /\ proc[p].unreserveCalls = 0

----------------------------------------------------------------------------
\* Properties of the Best Buy link of processDeal (Spec)

\* the pcs of processDeal after its Best Buy branch
PastBestbuy == {"reserve"}

\* C30: with Best Buy enabled, a Best Buy link carried by the deal object is
\* the link Best Buy validation uses, and the deal page is scraped for a
\* Best Buy URL only when the deal object carries no link, so that a scrape
\* that finds nothing does not discard a link the deal had.
C30_DealLinkUsedForBestbuy ==
    \A p \in Procs :
        (proc[p].pc \in PastBestbuy /\ proc[p].bestbuyEnabled)
        => /\ proc[p].bestbuyLink => proc[p].bbUrl = "deal"
           /\ proc[p].bbScraped => ~proc[p].bestbuyLink

\* the deal carried a Best Buy link, the page was scraped all the same and
\* gave no URL, and processDeal goes on to reserve without Best Buy
C30_ScrapeDiscardsDealLink ==
    \E p \in Procs :
        /\ proc[p].pc = "reserve"
        /\ proc[p].bestbuyEnabled
        /\ proc[p].bestbuyLink
        /\ proc[p].bbScraped
        /\ proc[p].bbUrl = "none"
        /\ \A i \in 1..Len(proc[p].validRetailers) :
              proc[p].validRetailers[i].name # "bestbuy"

----------------------------------------------------------------------------
\* Properties of the validation phase of processDeal (Spec)

\* validRetailers and totalBuyable as they were are still there
PoolKept(l, m) ==
    /\ Len(m.validRetailers) >= Len(l.validRetailers)
    /\ SubSeq(m.validRetailers, 1, Len(l.validRetailers)) = l.validRetailers
    /\ m.totalBuyable >= l.totalBuyable

\* C31: whatever Amazon validation ends with (valid, invalid, an error),
\* Best Buy validation is attempted when Best Buy is enabled and the board
\* credentials are set, and a Best Buy validation that fails leaves the
\* retailers validated before it and their totalBuyable in the pool.
C31_RetailersEvaluatedIndependently ==
    [][\A p \in Procs :
         /\ (proc[p].pc = "valAmazon" /\ proc'[p].pc # "valAmazon"
              /\ proc[p].bestbuyEnabled /\ credentials)
            => proc'[p].pc = "bestbuy"
         /\ (proc[p].pc = "bestbuy" /\ proc'[p].pc \in {"reserve", "pdDone"})
            => PoolKept(proc[p], proc'[p])]_vars

\* Amazon validation ended with an exception for a deal Best Buy was enabled
\* for, and the cycle is in its cleanup without Best Buy having been looked at
C31_AmazonErrorSkipsBestbuy ==
    \E p \in CheckProcs :
        /\ proc[p].pc \in InCleanup
        /\ proc[p].threwAt = "valAmazon"
        /\ config.bestbuy_enabled
        /\ credentials

----------------------------------------------------------------------------
\* Monitor.syncOrders (src/unnamed/part_000, 1298-1312), its timers, and
\* Monitor.setAutoMode (1322-1328)

\* invocations of syncOrders the model lets be inside amazonTracker.sync
MaxSyncRuns == 2

\* who calls syncOrders: the interval and the timeout of startSyncPolling,
\* and POST /api/monitor/sync (src/app.js, 157-174)
SyncTriggers == {"interval", "timeout", "manual"}

\* lines 1298-1304: the isSyncing guard, up to the await of the sync
SyncOrdersBegin(sy) ==
    IF sy.isSyncing
    THEN [sy EXCEPT !.last = "skipped"]
    ELSE [sy EXCEPT !.isSyncing = TRUE, !.running = @ + 1, !.last = "entered"]

\* a finally block that is a plain statement after the try: skipped when the
\* sync threw
SyncOrdersEndNoFinally(sy, outcome) ==
    [sy EXCEPT !.isSyncing = IF outcome = "returns" THEN FALSE ELSE @,
               !.running = @ - 1]

\* lines 1305-1311: amazonTracker.sync returns or throws; the catch logs, the
\* finally block releases the flag
SyncOrdersEnd(sy, outcome) ==
    [sy EXCEPT !.isSyncing = FALSE, !.running = @ - 1]

\* a trigger calls syncOrders; the route looks at isSyncing itself first
\* (src/app.js, 160-162), the timeout fires once
SyncOrders(kind) ==
    /\ sync.running < MaxSyncRuns
    /\ CASE kind = "interval" -> sync.syncIntervalId
         [] kind = "timeout" -> sync.firstSync
         [] OTHER -> ~sync.isSyncing
    /\ sync' = SyncOrdersBegin(
                  [sync EXCEPT !.firstSync = IF kind = "timeout" THEN FALSE ELSE @])
    /\ UNCHANGED <<isRunning, isChecking, intervalId, runResults, processingDeals,
                   config, credentials, amazonBuyer, tracker, fn, proc, ri, lg, dm>>

\* await this.amazonTracker.sync(isManual) is over
SyncOrdersReturns(outcome) ==
    /\ sync.running > 0
    /\ sync' = SyncOrdersEnd(sync, outcome)
    /\ UNCHANGED <<isRunning, isChecking, intervalId, runResults, processingDeals,
                   config, credentials, amazonBuyer, tracker, fn, proc, ri, lg, dm>>

\* POST /api/monitor/mode (src/app.js, 126-144) calls setAutoMode: startPolling
\* (a check at once, then the interval) or stopPolling
SetAutoMode(p, enabled) ==
    /\ proc[p].pc = "idle"
    /\ IF enabled
       THEN IF intervalId
            THEN UNCHANGED <<proc, processingDeals, isChecking, runResults, intervalId>>
            ELSE /\ Commit(p, CheckDealsBegin(World(p)))
                 /\ intervalId' = TRUE
       ELSE /\ intervalId' = FALSE
            /\ UNCHANGED <<proc, processingDeals, isChecking, runResults>>
    /\ UNCHANGED <<isRunning, config, credentials, amazonBuyer, tracker, fn, ri, lg, sync, dm>>

\* Specification SyncSpec: the deal-check loop and the order-sync loop of one
\* Monitor whose config enables sync_orders
SyncInit ==
    /\ MonInit
    /\ config \in Configs
    /\ config.amazon_max_per_order = 0
    /\ config.bestbuy_max_per_order = 0
    /\ config.price_tolerance = 0
    /\ config.amazon_enabled
    /\ credentials = TRUE
    /\ amazonBuyer = [price_tolerance |-> config.price_tolerance]
    /\ tracker = TrOff
    /\ fn = FnOff
    /\ ri = RiIdle
    /\ lg = LgOff
    /\ sync = [SyOff EXCEPT !.enabled = TRUE]
    /\ dm = DmOff

SyncNext ==
    \/ CheckStep(1)
    \/ \E enabled \in BOOLEAN : SetAutoMode(1, enabled)
    \/ \E kind \in SyncTriggers : SyncOrders(kind)
    \/ \E outcome \in {"returns", "throw"} : SyncOrdersReturns(outcome)

SyncSpec == SyncInit /\ [][SyncNext]_vars

----------------------------------------------------------------------------
\* Specification DiscoverySpec: one fetchAndFilterDeals call of a DealManager
\* built with or without a BfmrWeb, some deals in flight already

DiscoveryInit ==
    /\ isRunning = TRUE
    /\ isChecking = TRUE
    /\ intervalId = TRUE
    /\ runResults = FALSE
    /\ processingDeals \in SUBSET Deals
    /\ proc = [p \in Procs |-> Idle]
    /\ config \in Configs
    /\ config.amazon_max_per_order = 0
    /\ config.bestbuy_max_per_order = 0
    /\ config.price_tolerance = 0
    /\ credentials = TRUE
    /\ amazonBuyer = [price_tolerance |-> config.price_tolerance]
    /\ tracker = TrOff
    /\ fn = FnOff
    /\ ri = RiIdle
    /\ lg = LgOff
    /\ sync = SyOff
    /\ \E web \in BOOLEAN :
          dm = [DmOff EXCEPT !.pc = "getDeals", !.bfmrWeb = web,
                             !.pd = processingDeals]

DiscoverySpec == DiscoveryInit /\ [][DmNext]_vars

\* C35: when the scrape step of hybrid discovery fails (scrapeDealSlugs
\* throws or returns no slug, or no hidden deal can be fetched),
\* fetchAndFilterDeals returns exactly what it returns for the API response
\* alone; every deal it returns beyond those is a hidden deal that was
\* fetched and passes isDealActionable, and the call returns in every case.
C35_DiscoveryFailureKeepsApiDeals ==
    /\ \A i \in (Len(dm.api) + 1)..Len(dm.apiDeals) :
          dm.apiDeals[i] \in dm.hidden /\ IsDealActionable(dm.apiDeals[i], config)
    /\ dm.pc = "done"
       => LET apiOnly == ActionableDeals(dm.api, dm.pd, config)
          IN /\ Len(dm.result) >= Len(apiOnly)
             /\ SubSeq(dm.result, 1, Len(apiOnly)) = apiOnly
             /\ \A i \in (Len(apiOnly) + 1)..Len(dm.result) :
                   /\ dm.result[i] \in dm.hidden
                   /\ IsDealActionable(dm.result[i], config)
             /\ (dm.scrape \in {"throws", "empty"} \/ dm.hidden = {})
                => dm.result = apiOnly

\* scrapeDealSlugs threw and the call returned the actionable deal of the
\* API response
C35_ScrapeThrewApiDealsReturned ==
    /\ dm.pc = "done"
    /\ dm.bfmrWeb
    /\ dm.scrape = "throws"
    /\ Len(dm.result) > 0
    /\ dm.result = ActionableDeals(dm.api, dm.pd, config)

----------------------------------------------------------------------------
\* Properties of the two loops of one Monitor (SyncSpec)

\* C32: the deal-check loop and the order-sync loop are guarded
\* independently.  At most one syncOrders invocation is inside the sync, and
\* isSyncing is set exactly while one is (so it is false again after every
\* sync that passed the guard, one that threw included); with a cycle in
\* progress a syncOrders trigger that finds no sync in progress enters the
\* sync; with a sync in progress a checkDeals trigger that finds no cycle in
\* progress starts a cycle.
C32_LoopsGuardedIndependently ==
    /\ sync.running <= 1
    /\ sync.isSyncing <=> sync.running = 1
    /\ (isChecking /\ ~sync.isSyncing /\ sync.syncIntervalId)
       => ENABLED (SyncOrders("interval") /\ sync'.isSyncing)
    /\ (sync.isSyncing /\ ~isChecking /\ proc[1].pc = "idle")
       => ENABLED (RunOnce(1) /\ isChecking')

\* a sync and a cycle are in progress together, and a trigger of syncOrders
\* has been turned away by the guard
C32_SyncBesideCycleSecondSkipped ==
    /\ sync.isSyncing
    /\ sync.last = "skipped"
    /\ isChecking
    /\ proc[1].pc \in InProcessDeal

\* C38: after stop() no timer of the Monitor triggers checkDeals or
\* syncOrders until start or setAutoMode(true): stop cancels the deal-check
\* interval, and while the Monitor is stopped neither the order-sync interval
\* nor the delayed first sync is armed.
C38_StopCancelsEveryTimer ==
    /\ [][(isRunning /\ ~isRunning') => ~intervalId']_vars
    /\ [](~isRunning => (~sync.syncIntervalId /\ ~sync.firstSync))

\* checkDeals found Amazon logged out and called stop(): the deal-check
\* interval is cleared, the order-sync interval and the first-sync timeout
\* are armed, and the timeout can call syncOrders
C38_SyncTimersOutliveStop ==
    /\ ~isRunning
    /\ ~intervalId
    /\ sync.syncIntervalId
    /\ sync.firstSync
    /\ ~sync.isSyncing
    /\ ENABLED (SyncOrders("timeout") /\ sync'.isSyncing)

----------------------------------------------------------------------------
\* Specification RetryLedgerSpec: retryDeal invocations of a started Monitor
\* with both retailers enabled; fn holds deal 1 as the API delivers it (a
\* link of either retailer), the filters of config.json and the order ledger
\* as they are at the time of the retry

RetryLedgerInit ==
    /\ isRunning = TRUE
    /\ isChecking = FALSE
    /\ intervalId = TRUE
    /\ runResults = FALSE
    /\ processingDeals = {}
    /\ proc = [p \in Procs |-> Idle]
    /\ config = [amazon_enabled |-> TRUE, amazon_max_per_order |-> 0,
                 bestbuy_enabled |-> TRUE, bestbuy_max_per_order |-> 0,
                 price_tolerance |-> 0]
    /\ credentials = TRUE
    /\ amazonBuyer = [price_tolerance |-> config.price_tolerance]
    /\ tracker = TrOff
    /\ ri = RiIdle
    /\ lg = LgOff
    /\ sync = SyOff
    /\ dm = DmOff
    /\ \E deal \in FnDeals, cfg \in FnConfigs, orders \in Ledgers :
          /\ deal.shape = "retailer_links"
          /\ deal.links = <<[retailer |-> "Amazon", url |-> 1],
                            [retailer |-> "Best Buy", url |-> 2]>>
          /\ deal.retail_price = 1
          /\ cfg.min_payout = 0
          /\ cfg.amazon_enabled = config.amazon_enabled
          /\ cfg.bestbuy_enabled = config.bestbuy_enabled
          /\ fn = [FnOff EXCEPT !.pc = "ready", !.deal = deal, !.cfg = cfg,
                                !.orders = orders]

RetryLedgerSpec == RetryLedgerInit /\ [][RetryStep(3)]_vars

\* C39: retryDeal never runs processDeal for a deal that isDealActionable
\* rejects at the time of the retry, in particular not for a deal code the
\* order ledger already holds an order for.
C39_RetryOnlyOfActionableDeal ==
    \A q \in RetryProcs :
        (/\ proc[q].deal = fn.deal.deal_code
         /\ proc[q].pc \in InProcessDeal \cup {"pdDone"} \/ proc[q].started # {})
        => isDealActionable(fn.deal, fn.cfg, fn.orders)

\* retryDeal was asked for a deal the ledger holds an order for; processDeal
\* has reserved units for it on the board and is adding it to the cart
C39_OrderedDealReservedAgain ==
    \E q \in RetryProcs :
        /\ proc[q].deal = fn.deal.deal_code
        /\ hasDeal(fn.orders, proc[q].deal)
        /\ proc[q].pc = "buyAmazon"
        /\ proc[q].totalReserved > 0

====
